---- MODULE Spec2Model ----
(***************************************************************************)
(* A state-machine model of oc-wasm-safe: the take-once capability tokens  *)
(* (Lister, MethodLister, Invoker), the opaque value descriptors (Owned,   *)
(* Borrowed, Decoded) and the two-phase method invocation (MethodCall).    *)
(* The host (the oc_wasm_sys imports) is the environment: its descriptor   *)
(* table and its single invocation slot are state of the model, and each   *)
(* syscall the wrappers issue is recorded in hcalls.                       *)
(***************************************************************************)
EXTENDS Integers, Sequences, FiniteSets

VARIABLES
    Instance,   \* per token kind: the static Option in take(): TRUE = Some(token), FALSE = None
    takes,      \* per token kind: how many take() calls were made (history)
    tokens,     \* per token kind: the token values that exist, named by the take that made them
    table,      \* host descriptor table: table[d] = TRUE iff entry d is open
    wire,       \* descriptors the host allocated for opaque values of call results, not yet decoded
    owned,      \* the Owned values ever created
    borrowed,   \* the Borrowed values that exist
    decoded,    \* the Decoded values that exist
    slot,       \* the host's single invocation slot
    mcall,      \* per Invoker token: the MethodCall borrowing it
    hlist,      \* per lister kind: the host's listing in progress (entries and cursor)
    listing,    \* per lister kind: the Listing / MethodListing values made from the token
    last,       \* the operation performed by the last step and what it returned
    hcalls      \* the host calls issued by the last step, in order

vars ==
    <<Instance, takes, tokens, table, wire, owned, borrowed, decoded, slot, mcall, hlist, listing,
      last, hcalls>>

tokVars == <<Instance, takes, tokens>>
descVars == <<table, wire, owned, borrowed, decoded>>
invVars == <<slot, mcall>>
listVars == <<hlist, listing>>

----------------------------------------------------------------------------
(* Bounds of the model. *)

MaxTakes == 3
TableSize == 2
MaxOwned == 2
MaxBorrowed == 2
MaxDecoded == 1
MaxLen == 2
MaxEntries == 3
MaxName == 2
Bits == 5

----------------------------------------------------------------------------
(* Results. *)

Ok(v) == [tag |-> "Ok", val |-> v, err |-> "None"]

Err(e) == [tag |-> "Err", val |-> 0, err |-> e]

Panic == [tag |-> "Panic", val |-> 0, err |-> "None"]

Ret(t, v) == [tag |-> t, val |-> v, err |-> "None"]

(* Error::from_isize: the host's return value to Result<usize>. *)
from_isizeSwapped(value) ==
    CASE value = -1 -> Panic
      [] value = -2 -> Err("CborDecode")
      [] value = -3 -> Panic
      [] value = -4 -> Err("BufferTooShort")
      [] value = -5 -> Err("NoSuchComponent")
      [] value = -6 -> Err("NoSuchMethod")
      [] value = -7 -> Err("BadParameters")
      [] value = -8 -> Err("QueueFull")
      [] value = -9 -> Err("QueueEmpty")
      [] value = -10 -> Err("TooManyDescriptors")
      [] value = -11 -> Err("BadDescriptor")
      [] value = -12 -> Err("Other")
      [] value < -12 -> Err("Unknown")
      [] OTHER -> Ok(value)

from_isizeNoUnknown(value) ==
    CASE value = -1 -> Panic
      [] value = -2 -> Err("CborDecode")
      [] value = -3 -> Panic
      [] value = -4 -> Err("BufferTooShort")
      [] value = -5 -> Err("NoSuchComponent")
      [] value = -6 -> Err("NoSuchMethod")
      [] value = -7 -> Err("BadParameters")
      [] value = -8 -> Err("QueueFull")
      [] value = -9 -> Err("QueueEmpty")
      [] value = -10 -> Err("BadDescriptor")
      [] value = -11 -> Err("TooManyDescriptors")
      [] value < -11 -> Err("Other")
      [] OTHER -> Ok(value)

from_isize(value) ==
    CASE value = -1 -> Panic
      [] value = -2 -> Err("CborDecode")
      [] value = -3 -> Panic
      [] value = -4 -> Err("BufferTooShort")
      [] value = -5 -> Err("NoSuchComponent")
      [] value = -6 -> Err("NoSuchMethod")
      [] value = -7 -> Err("BadParameters")
      [] value = -8 -> Err("QueueFull")
      [] value = -9 -> Err("QueueEmpty")
      [] value = -10 -> Err("BadDescriptor")
      [] value = -11 -> Err("TooManyDescriptors")
      [] value = -12 -> Err("Other")
      [] value < -12 -> Err("Unknown")
      [] OTHER -> Ok(value)

(* The integer types at the model's scale: i32 is Bits bits wide, two's     *)
(* complement, and u32 is Bits bits wide, unsigned.                         *)
I32 == -(2 ^ (Bits - 1)) .. 2 ^ (Bits - 1) - 1

U32 == 0 .. 2 ^ Bits - 1

AsU32(n) == n % (2 ^ Bits)

AsU32Narrow(n) == n % (2 ^ (Bits - 2))

(* Error::from_i32: Ok(from_isize(value as isize)? as u32). The cast to     *)
(* isize widens and keeps the number; the cast of the count to u32          *)
(* truncates to the width of u32.                                           *)
from_i32Narrow(value) ==
    LET r == from_isize(value)
    IN  IF r.tag = "Ok" THEN Ok(AsU32Narrow(r.val)) ELSE r

from_i32(value) ==
    LET r == from_isize(value)
    IN  IF r.tag = "Ok" THEN Ok(AsU32(r.val)) ELSE r

----------------------------------------------------------------------------
(* Last-step record. *)

OpK(name, kind, id, ret) == [op |-> name, kind |-> kind, id |-> id, arg |-> 0, ret |-> ret]

OpA(name, id, arg, ret) == [op |-> name, kind |-> "-", id |-> id, arg |-> arg, ret |-> ret]

Op(name, id, ret) == OpK(name, "-", id, ret)

HostCall(name, arg, rc) == [call |-> name, arg |-> arg, rc |-> rc]

----------------------------------------------------------------------------
(* Initial state: nothing taken, no descriptor open, no call in flight. *)

Kinds == {"Lister", "MethodLister", "Invoker"}

TokIds == 1 .. MaxTakes

Desc == 0 .. TableSize - 1

OwnedIds == 1 .. MaxOwned

BorrowedIds == 1 .. MaxBorrowed

DecodedIds == 1 .. MaxDecoded

NoOwned == [st |-> "none", nz |-> 0, closes |-> 0, src |-> 0]

NoBorrowed == [st |-> "none", nz |-> 0, owner |-> 0]

NoDecoded == [st |-> "none", nz |-> 0, fresh |-> FALSE]

EmptySlot == [st |-> "empty", res |-> 0]

ListKinds == {"Lister", "MethodLister"}

NoList == [seq |-> <<>>, pos |-> 0]

NoListing ==
    [alive |-> 0, got |-> <<>>, nones |-> 0, entry |-> FALSE, short |-> 0, retried |-> FALSE,
     nth |-> 0]

NoCall ==
    [st |-> "none", hint |-> "None", polled |-> FALSE, sliced |-> FALSE, cancels |-> 0, nth |-> 0,
     reported |-> -1, short |-> FALSE]

Init ==
    /\ Instance = [k \in Kinds |-> TRUE]
    /\ takes = [k \in Kinds |-> 0]
    /\ tokens = [k \in Kinds |-> {}]
    /\ table = [d \in Desc |-> FALSE]
    /\ wire = {}
    /\ owned = [o \in OwnedIds |-> NoOwned]
    /\ borrowed = [b \in BorrowedIds |-> NoBorrowed]
    /\ decoded = [k \in DecodedIds |-> NoDecoded]
    /\ slot = EmptySlot
    /\ mcall = [i \in TokIds |-> NoCall]
    /\ hlist = [k \in ListKinds |-> NoList]
    /\ listing = [k \in ListKinds |-> NoListing]
    /\ last = Op("init", 0, Ret("None", 0))
    /\ hcalls = <<>>

----------------------------------------------------------------------------
(* Capability tokens: Lister::take, MethodLister::take, Invoker::take. *)

(* Option::take on the static: returns what it holds and leaves None. *)
OptionTakeKeep(opt) == [ret |-> opt, left |-> opt]

OptionTake(opt) == [ret |-> opt, left |-> FALSE]

Take(k) ==
    /\ takes[k] < MaxTakes
    /\ LET r == OptionTake(Instance[k])
           n == takes[k] + 1
       IN  /\ Instance' = [Instance EXCEPT ![k] = r.left]
           /\ takes' = [takes EXCEPT ![k] = n]
           /\ tokens' = IF r.ret THEN [tokens EXCEPT ![k] = @ \cup {n}] ELSE tokens
           /\ last' = OpK("take", k, n, IF r.ret THEN Ret("Some", n) ELSE Ret("None", 0))
    /\ hcalls' = <<>>
    /\ UNCHANGED <<descVars, invVars, listVars>>

(* A token value goes out of scope. The token types have no Drop impl, and a  *)
(* token mutably borrowed by a MethodCall, a Listing or a MethodListing       *)
(* cannot be dropped.                                                         *)
DropToken(k, i) ==
    /\ i \in tokens[k]
    /\ k = "Invoker" => mcall[i].st # "live"
    /\ k \in ListKinds => listing[k].alive = 0
    /\ tokens' = [tokens EXCEPT ![k] = @ \ {i}]
    /\ last' = OpK("drop_token", k, i, Ret("None", 0))
    /\ hcalls' = <<>>
    /\ UNCHANGED <<Instance, takes, descVars, invVars, listVars>>

NextTok ==
    \/ \E k \in Kinds : Take(k)
    \/ \E k \in Kinds : \E i \in TokIds : DropToken(k, i)

SpecTok == Init /\ [][NextTok]_vars

----------------------------------------------------------------------------
(* Opaque value descriptors: Owned, Borrowed, Decoded. Each holds the raw   *)
(* descriptor plus one as a NonZeroU32 (field nz).                          *)

IDENTIFIER == 39

BINARY_UUID == 37

(* Owned::new: NonZeroU32::new_unchecked(raw + 1). The descriptors of this  *)
(* model are entries of the host table, far below the u32 range.            *)
OwnedNewNoOffset(raw) == raw

OwnedNew(raw) == raw + 1

(* What Owned::new(raw) does in the builds of the crate. raw + 1 fits for   *)
(* every raw but the largest u32. For that one a build with overflow checks *)
(* panics at the addition, and a build without them wraps to 0 and hands 0  *)
(* to new_unchecked, which is undefined behaviour: nothing is known of the  *)
(* value stored or of what is read back from it.                            *)
OwnedNewBuilds(raw) ==
    IF raw + 1 <= 2 ^ Bits - 1
    THEN {[tag |-> "Ok", nz |-> OwnedNew(raw)]}
    ELSE {[tag |-> "Panic", nz |-> 0]} \cup {[tag |-> "Undefined", nz |-> x] : x \in U32}

(* Owned::as_raw, Borrowed::as_raw: self.0.get() - 1. *)
as_rawNoDecrement(nz) == nz

as_raw(nz) == nz - 1

(* cbor_encode: an integer under the Identifier tag. *)
cbor_encode(descriptor) == [tag |-> IDENTIFIER, val |-> descriptor]

(* Decode for Decoded: the tag must be Identifier; the NonZeroU32 is the     *)
(* value plus one. For the largest u32 the addition overflows: a build with *)
(* overflow checks panics there, a build without them wraps to 0, for which *)
(* NonZeroU32::new gives None and unwrap panics.                            *)
DecodedDecodeNoOffset(item) ==
    IF item.tag # IDENTIFIER THEN Err("Decode")
    ELSE Ok(item.val)

DecodedDecode(item) ==
    IF item.tag # IDENTIFIER THEN Err("Decode")
    ELSE IF item.val + 1 > 2 ^ Bits - 1 THEN Panic
    ELSE Ok(item.val + 1)

(* The host's close: one call record; rc is 0 for an open entry and         *)
(* BadDescriptor (-10) otherwise. The wrappers ignore rc.                   *)
CloseCall(tbl, d) == HostCall("close", d, IF d \in Desc /\ tbl[d] THEN 0 ELSE -10)

(* The host's table after the calls of one step: close frees the entry, a   *)
(* successful dup opens the entry it returned.                              *)
RECURSIVE HostApply(_, _)
HostApply(tbl, calls) ==
    IF calls = <<>> THEN tbl
    ELSE LET c == Head(calls)
             t == IF c.call = "close" /\ c.arg \in Desc THEN [tbl EXCEPT ![c.arg] = FALSE]
                  ELSE IF c.call = "dup" /\ c.rc \in Desc THEN [tbl EXCEPT ![c.rc] = TRUE]
                  ELSE tbl
         IN  HostApply(t, Tail(calls))

(* The host's dup of descriptor d: BadDescriptor for an entry that is not   *)
(* open, TooManyDescriptors when no entry is free, else a fresh entry.      *)
HostDup(tbl, d) ==
    IF ~(d \in Desc /\ tbl[d]) THEN {-10}
    ELSE IF \A e \in Desc : tbl[e] THEN {-11}
    ELSE {e \in Desc : ~tbl[e]}

FreeOwned == {o \in OwnedIds : owned[o].st = "none"}

FreeBorrowed == {b \in BorrowedIds : borrowed[b].st = "none"}

FreeDecoded == {k \in DecodedIds : decoded[k].st = "none"}

First(S) == CHOOSE x \in S : \A y \in S : x <= y

(* Lifetime rule of Borrowed<'a>: while a Borrowed exists its Owned cannot  *)
(* be moved or dropped.                                                     *)
IsBorrowed(o) == \E b \in BorrowedIds : borrowed[b].st = "live" /\ borrowed[b].owner = o

CloseCount(calls, d) == Cardinality({i \in DOMAIN calls : calls[i].call = "close" /\ calls[i].arg = d})

(* The host allocates a fresh descriptor for an opaque value it returns in  *)
(* a call result.                                                           *)
HostReturnValue ==
    /\ \E d \in Desc :
          /\ ~table[d]
          /\ table' = [table EXCEPT ![d] = TRUE]
          /\ wire' = wire \cup {d}
          /\ last' = Op("host_value", d, Ret("None", 0))
    /\ hcalls' = <<>>
    /\ UNCHANGED <<tokVars, invVars, listVars, owned, borrowed, decoded>>

(* Decoding a call result that carries descriptor d. *)
DecodeResult(d) ==
    /\ d \in wire
    /\ FreeDecoded # {}
    /\ LET r == DecodedDecode(cbor_encode(d))
           k == First(FreeDecoded)
       IN  /\ r.tag = "Ok"
           /\ decoded' = [decoded EXCEPT ![k] = [st |-> "live", nz |-> r.val, fresh |-> TRUE]]
           /\ last' = OpA("decode", k, IDENTIFIER, Ok(r.val))
    /\ wire' = wire \ {d}
    /\ hcalls' = <<>>
    /\ UNCHANGED <<tokVars, invVars, listVars, table, owned, borrowed>>

(* Decoding bytes the caller made up: any tag, any value. *)
DecodeCrafted(tag, val) ==
    /\ FreeDecoded # {}
    /\ LET r == DecodedDecode([tag |-> tag, val |-> val])
           k == First(FreeDecoded)
       IN  /\ r.tag # "Panic"
           /\ decoded' = IF r.tag = "Ok"
                         THEN [decoded EXCEPT ![k] = [st |-> "live", nz |-> r.val, fresh |-> FALSE]]
                         ELSE decoded
           /\ last' = OpA("decode", IF r.tag = "Ok" THEN k ELSE 0, tag, r)
    /\ hcalls' = <<>>
    /\ UNCHANGED <<tokVars, invVars, listVars, table, wire, owned, borrowed>>

(* Decoding the bytes that the last step, an encode of an Owned or of a     *)
(* Borrowed, wrote.                                                         *)
DecodeEncoded ==
    /\ last.op \in {"encode", "encode_borrowed"}
    /\ FreeDecoded # {}
    /\ LET r == DecodedDecode(last.ret.val)
           k == First(FreeDecoded)
       IN  /\ r.tag # "Panic"
           /\ decoded' = IF r.tag = "Ok"
                         THEN [decoded EXCEPT ![k] = [st |-> "live", nz |-> r.val, fresh |-> FALSE]]
                         ELSE decoded
           /\ last' = OpA("decode_encoded", IF r.tag = "Ok" THEN k ELSE 0, last.ret.val.tag, r)
    /\ hcalls' = <<>>
    /\ UNCHANGED <<tokVars, invVars, listVars, table, wire, owned, borrowed>>

(* Decoded::into_owned: Owned(self.0). *)
IntoOwnedOffByOne(nz) == OwnedNew(nz)

IntoOwnedNz(nz) == nz

(* Decoded has no Drop impl. The step records the descriptor the dropped    *)
(* Decoded named.                                                           *)
DecodedDropClosing(nz) == <<CloseCall(table, as_raw(nz))>>

DecodedDropCalls(nz) == <<>>

(* Decoded::into_owned, under its safety contract: the Decoded is the only  *)
(* reference to a valid descriptor, fresh from a call result.               *)
IntoOwned(k) ==
    /\ decoded[k].st = "live"
    /\ decoded[k].fresh
    /\ FreeOwned # {}
    /\ LET o == First(FreeOwned)
       IN  /\ owned' = [owned EXCEPT ![o] =
                          [st |-> "live", nz |-> IntoOwnedNz(decoded[k].nz), closes |-> 0, src |-> 0]]
           /\ last' = Op("into_owned", o, Ok(decoded[k].nz))
    /\ decoded' = [decoded EXCEPT ![k] = NoDecoded]
    /\ hcalls' = <<>>
    /\ UNCHANGED <<tokVars, invVars, listVars, table, wire, borrowed>>

DropDecoded(k) ==
    /\ decoded[k].st = "live"
    /\ decoded' = [decoded EXCEPT ![k] = NoDecoded]
    /\ hcalls' = DecodedDropCalls(decoded[k].nz)
    /\ table' = HostApply(table, hcalls')
    /\ last' = Op("drop_decoded", k, Ret("None", decoded[k].nz - 1))
    /\ UNCHANGED <<tokVars, invVars, listVars, wire, owned, borrowed>>

(* AsDescriptor for Owned: Borrowed(self.0, PhantomData). *)
Borrow(o) ==
    /\ owned[o].st = "live"
    /\ FreeBorrowed # {}
    /\ LET b == First(FreeBorrowed)
       IN  /\ borrowed' = [borrowed EXCEPT ![b] = [st |-> "live", nz |-> owned[o].nz, owner |-> o]]
           /\ last' = Op("as_descriptor", b, Ok(owned[o].nz))
    /\ hcalls' = <<>>
    /\ UNCHANGED <<tokVars, invVars, listVars, table, wire, owned, decoded>>

(* AsDescriptor for Borrowed, Copy, Clone: *self. *)
CopyBorrowed(b) ==
    /\ borrowed[b].st = "live"
    /\ FreeBorrowed # {}
    /\ LET c == First(FreeBorrowed)
       IN  /\ borrowed' = [borrowed EXCEPT ![c] = borrowed[b]]
           /\ last' = Op("copy_borrowed", c, Ok(borrowed[b].nz))
    /\ hcalls' = <<>>
    /\ UNCHANGED <<tokVars, invVars, listVars, table, wire, owned, decoded>>

(* Borrowed has no Drop impl. *)
BorrowedDropClosing(nz) == <<CloseCall(table, as_raw(nz))>>

BorrowedDropCalls(nz) == <<>>

DropBorrowed(b) ==
    /\ borrowed[b].st = "live"
    /\ borrowed' = [borrowed EXCEPT ![b] = NoBorrowed]
    /\ hcalls' = BorrowedDropCalls(borrowed[b].nz)
    /\ table' = HostApply(table, hcalls')
    /\ last' = Op("drop_borrowed", b, Ret("None", 0))
    /\ UNCHANGED <<tokVars, invVars, listVars, wire, owned, decoded>>

(* Owned::as_raw. *)
AsRawOwned(o) ==
    /\ owned[o].st = "live"
    /\ last' = Op("as_raw", o, Ok(as_raw(owned[o].nz)))
    /\ hcalls' = <<>>
    /\ UNCHANGED <<tokVars, invVars, listVars, descVars>>

(* Borrowed::as_raw. *)
AsRawBorrowed(b) ==
    /\ borrowed[b].st = "live"
    /\ last' = Op("as_raw_borrowed", b, Ok(as_raw(borrowed[b].nz)))
    /\ hcalls' = <<>>
    /\ UNCHANGED <<tokVars, invVars, listVars, descVars>>

(* Encode for Owned: cbor_encode(self.as_raw(), e). *)
EncodeOwned(o) ==
    /\ owned[o].st = "live"
    /\ last' = Op("encode", o, Ret("Cbor", cbor_encode(as_raw(owned[o].nz))))
    /\ hcalls' = <<>>
    /\ UNCHANGED <<tokVars, invVars, listVars, descVars>>

(* Encode for Borrowed: cbor_encode(self.as_raw(), e). *)
EncodeBorrowed(b) ==
    /\ borrowed[b].st = "live"
    /\ last' = Op("encode_borrowed", b, Ret("Cbor", cbor_encode(as_raw(borrowed[b].nz))))
    /\ hcalls' = <<>>
    /\ UNCHANGED <<tokVars, invVars, listVars, descVars>>

(* Owned::dup: the host's return value through Error::from_i32 and `?`. *)
DupResult(rc) == from_i32(rc)

(* Owned::dup: on success, Self::new(new_desc). *)
DupNewSelf(selfRaw, newDesc) == OwnedNew(selfRaw)

DupNew(selfRaw, newDesc) == OwnedNew(newDesc)

Dup(o) ==
    /\ owned[o].st = "live"
    /\ \E rc \in HostDup(table, as_raw(owned[o].nz)) :
          LET r == DupResult(rc)
              call == HostCall("dup", as_raw(owned[o].nz), rc)
          IN  /\ r.tag # "Panic"
              /\ hcalls' = <<call>>
              /\ table' = HostApply(table, hcalls')
              /\ IF r.tag = "Ok"
                 THEN /\ FreeOwned # {}
                      /\ LET n == First(FreeOwned)
                         IN  /\ owned' = [owned EXCEPT ![n] =
                                            [st |-> "live", nz |-> DupNew(as_raw(owned[o].nz), r.val),
                                             closes |-> 0, src |-> o]]
                             /\ last' = Op("dup", o, Ok(n))
                 ELSE /\ owned' = owned
                      /\ last' = Op("dup", o, r)
    /\ UNCHANGED <<tokVars, invVars, listVars, wire, borrowed, decoded>>

(* Drop for Owned: sys::close(self.as_raw()). *)
OwnedDropNoClose(nz) == <<>>

OwnedDropCalls(nz) == <<CloseCall(table, as_raw(nz))>>

DropOwned(o) ==
    /\ owned[o].st = "live"
    /\ ~IsBorrowed(o)
    /\ hcalls' = OwnedDropCalls(owned[o].nz)
    /\ table' = HostApply(table, hcalls')
    /\ owned' = [owned EXCEPT ![o].st = "dropped",
                              ![o].closes = CloseCount(hcalls', owned[o].nz - 1)]
    /\ last' = Op("drop_owned", o, Ret("None", 0))
    /\ UNCHANGED <<tokVars, invVars, listVars, wire, borrowed, decoded>>

(* Owned::into_inner: let ret = self.as_raw(); forget(self); ret. *)
IntoInnerDropping(nz) == OwnedDropCalls(nz)

IntoInnerCalls(nz) == <<>>

IntoInner(o) ==
    /\ owned[o].st = "live"
    /\ ~IsBorrowed(o)
    /\ hcalls' = IntoInnerCalls(owned[o].nz)
    /\ table' = HostApply(table, hcalls')
    /\ owned' = [owned EXCEPT ![o].st = "leaked",
                              ![o].closes = CloseCount(hcalls', owned[o].nz - 1)]
    /\ last' = Op("into_inner", o, Ok(as_raw(owned[o].nz)))
    /\ UNCHANGED <<tokVars, invVars, listVars, wire, borrowed, decoded>>

NextDesc ==
    \/ HostReturnValue
    \/ \E d \in Desc : DecodeResult(d)
    \/ \E k \in DecodedIds : IntoOwned(k)
    \/ \E k \in DecodedIds : DropDecoded(k)
    \/ \E o \in OwnedIds : Borrow(o)
    \/ \E b \in BorrowedIds : CopyBorrowed(b)
    \/ \E b \in BorrowedIds : DropBorrowed(b)
    \/ \E o \in OwnedIds : AsRawOwned(o)
    \/ \E b \in BorrowedIds : AsRawBorrowed(b)
    \/ \E o \in OwnedIds : EncodeOwned(o)
    \/ \E b \in BorrowedIds : EncodeBorrowed(b)
    \/ \E o \in OwnedIds : Dup(o)
    \/ \E o \in OwnedIds : DropOwned(o)
    \/ \E o \in OwnedIds : IntoInner(o)

SpecDesc == Init /\ [][NextDesc]_vars

(* The life of a Decoded: decoded from a call result or from bytes the      *)
(* caller made up, then dropped or upgraded.                                *)
NextDecoded ==
    \/ HostReturnValue
    \/ \E d \in Desc : DecodeResult(d)
    \/ \E tag \in {IDENTIFIER, BINARY_UUID} : \E val \in Desc : DecodeCrafted(tag, val)
    \/ \E k \in DecodedIds : IntoOwned(k)
    \/ \E k \in DecodedIds : DropDecoded(k)
    \/ \E o \in OwnedIds : DropOwned(o)

SpecDecoded == Init /\ [][NextDecoded]_vars

(* Handles are encoded, and what was written, or bytes the caller made up,  *)
(* is decoded.                                                              *)
NextRoundTrip ==
    \/ HostReturnValue
    \/ \E d \in Desc : DecodeResult(d)
    \/ \E k \in DecodedIds : IntoOwned(k)
    \/ \E o \in OwnedIds : Borrow(o)
    \/ \E b \in BorrowedIds : DropBorrowed(b)
    \/ \E o \in OwnedIds : EncodeOwned(o)
    \/ \E b \in BorrowedIds : EncodeBorrowed(b)
    \/ DecodeEncoded
    \/ \E tag \in {IDENTIFIER, BINARY_UUID} : \E val \in Desc : DecodeCrafted(tag, val)
    \/ \E k \in DecodedIds : DropDecoded(k)

SpecRoundTrip == Init /\ [][NextRoundTrip]_vars

----------------------------------------------------------------------------
(* Method invocation: Invoker, MethodCall and the host's invocation slot.   *)
(* slot.res is what invoke_end returns once the call has finished: the      *)
(* length of the result, or the error code of a failed call.                *)

StartOps == {"component_method", "value", "value_method", "value_indexed_read", "value_indexed_write"}

ValueOps == StartOps \ {"component_method"}

Params == {"absent", "valid", "malformed", "closed_descriptor"}

Results == {-5, -6, -7, -12} \cup (0 .. MaxLen)

LiveCalls == {i \in TokIds : mcall[i].st = "live"}

(* The host's answer to an invocation start: CborDecode for parameters it   *)
(* cannot decode, BadDescriptor for a descriptor that is not open,          *)
(* TooManyDescriptors when the table is full, else 1 when the call ran to   *)
(* completion at once and 0 when it will run on a later timeslice.          *)
HostInvoke(tbl, targetOpen, params) ==
    IF params = "malformed" THEN {-2}
    ELSE IF ~targetOpen \/ params = "closed_descriptor" THEN {-10}
    ELSE IF \A e \in Desc : tbl[e] THEN {-11}
    ELSE {0, 1}

(* The host's slot after it accepted a start that it answered with rc. *)
HostStarted(rc) ==
    IF rc = 0 THEN {[st |-> "pending", res |-> 0]}
    ELSE {[st |-> "ready", res |-> r] : r \in Results}

(* The host's invoke_end on slot sl with a buffer of len bytes (null: no    *)
(* buffer, the length is asked for): QueueEmpty when no result is waiting,  *)
(* the error of a failed call, BufferTooShort when the result does not fit, *)
(* else the length; a result written to the buffer is taken from the slot.  *)
HostInvokeEndForgetful(sl, null, len) ==
    IF sl.st # "ready" THEN [rc |-> -9, slot |-> sl]
    ELSE IF sl.res < 0 THEN [rc |-> sl.res, slot |-> sl]
    ELSE IF null THEN [rc |-> sl.res, slot |-> [st |-> "pending", res |-> 0]]
    ELSE IF len < sl.res THEN [rc |-> -4, slot |-> [st |-> "pending", res |-> 0]]
    ELSE [rc |-> sl.res, slot |-> EmptySlot]

HostInvokeEnd(sl, null, len) ==
    IF sl.st # "ready" THEN [rc |-> -9, slot |-> sl]
    ELSE IF sl.res < 0 THEN [rc |-> sl.res, slot |-> sl]
    ELSE IF null THEN [rc |-> sl.res, slot |-> sl]
    ELSE IF len < sl.res THEN [rc |-> -4, slot |-> sl]
    ELSE [rc |-> sl.res, slot |-> EmptySlot]

(* The host's invoke_cancel: the slot is emptied. *)
HostInvokeCancel(sl) == EmptySlot

(* The ? on from_i32 in a start: the start goes on only with Ok. *)
StartAcceptedAlways(r) == TRUE

StartAccepted(r) == r.tag = "Ok"

(* InvokeResult of a start: done = from_i32(..)? != 0. *)
StartDoneFlipped(v) == v = 0

StartDone(v) == v # 0

(* Drop for MethodCall: sys::invoke_cancel(). *)
MethodCallDropNoCancel == <<>>

MethodCallDropTwice == <<HostCall("invoke_cancel", 0, 0), HostCall("invoke_cancel", 0, 0)>>

MethodCallDropCalls == <<HostCall("invoke_cancel", 0, 0)>>

(* A MethodCall that was consumed: what the record says of it is kept (the  *)
(* hint it was started with, whether it was polled, whether a timeslice     *)
(* passed), with the invoke_cancel calls its end sent.                      *)
Gone(c, calls) ==
    [c EXCEPT !.st = "gone",
              !.cancels = @ + Cardinality({n \in DOMAIN calls : calls[n].call = "invoke_cancel"})]

SlotAfter(sl, calls) ==
    IF \E n \in DOMAIN calls : calls[n].call = "invoke_cancel" THEN HostInvokeCancel(sl) ELSE sl

Polled(c) == [c EXCEPT !.polled = TRUE]

(* The body shared by the five start methods of Invoker: one host call; an  *)
(* error is returned as it is, else the hint and a MethodCall borrowing the *)
(* Invoker are returned.                                                    *)
(* descriptor.as_descriptor().as_raw(): the Borrowed made of an Owned (or   *)
(* the Borrowed itself) holds the same NonZeroU32, and as_raw is taken of   *)
(* it.                                                                      *)
AsDescriptorRawNoDecrement(nz) == nz

AsDescriptorRaw(nz) == as_raw(nz)

StartCall(i, op, target, targetOpen, params) ==
    /\ i \in tokens["Invoker"]
    /\ mcall[i].st # "live"
    /\ \E rc \in HostInvoke(table, targetOpen, params) :
          LET r == from_i32(rc)
          IN  /\ r.tag # "Panic"
              /\ hcalls' = <<HostCall(op, target, rc)>>
              /\ IF StartAccepted(r)
                 THEN /\ slot' \in HostStarted(rc)
                      /\ LET hint == IF StartDone(r.val) THEN "Complete" ELSE "Incomplete"
                         IN  /\ mcall' = [mcall EXCEPT ![i] =
                                            [st |-> "live", hint |-> hint, polled |-> FALSE,
                                             sliced |-> FALSE, cancels |-> 0,
                                             nth |-> IF mcall[i].nth = 0 THEN 1 ELSE 2,
                                             reported |-> -1, short |-> FALSE]]
                             /\ last' = Op(op, i, Ret(hint, 0))
                 ELSE /\ UNCHANGED <<slot, mcall>>
                      /\ last' = Op(op, i, r)
    /\ UNCHANGED <<tokVars, descVars, listVars>>

(* Invoker::component_method. *)
StartComponentMethod(i, params) == StartCall(i, "component_method", 0, TRUE, params)

(* Invoker::value, value_method, value_indexed_read, value_indexed_write on *)
(* descriptor.as_descriptor().as_raw() of a live Owned.                     *)
StartValue(i, op, o, params) ==
    /\ owned[o].st = "live"
    /\ LET d == AsDescriptorRaw(owned[o].nz)
       IN  StartCall(i, op, d, d \in Desc /\ table[d], params)

(* A timeslice ends: a pending call may finish with some result. *)
Slice ==
    /\ slot.st # "empty" \/ LiveCalls # {}
    /\ \/ slot' = slot
       \/ slot.st = "pending" /\ \E r \in Results : slot' = [st |-> "ready", res |-> r]
    /\ mcall' = [i \in TokIds |-> IF mcall[i].st = "live" THEN [mcall[i] EXCEPT !.sliced = TRUE]
                                  ELSE mcall[i]]
    /\ last' = Op("slice", 0, Ret("None", 0))
    /\ hcalls' = <<>>
    /\ UNCHANGED <<tokVars, descVars, listVars>>

(* The match in MethodCall::end_length on what invoke_end returned: the     *)
(* variant of InvokeEndLengthResult, and whether self is moved into it      *)
(* (keep) or left to be dropped when end_length returns.                    *)
EndLengthMatchDroppingPending(r) ==
    IF r.tag = "Ok" THEN [tag |-> "Done", keep |-> TRUE]
    ELSE IF r.err = "QueueEmpty" THEN [tag |-> "Pending", keep |-> FALSE]
    ELSE [tag |-> "Done", keep |-> FALSE]

EndLengthMatchConsuming(r) ==
    IF r.tag = "Ok" THEN [tag |-> "Done", keep |-> FALSE]
    ELSE IF r.err = "QueueEmpty" THEN [tag |-> "Pending", keep |-> TRUE]
    ELSE [tag |-> "Done", keep |-> FALSE]

EndLengthMatchKeepingErr(r) ==
    IF r.tag = "Ok" THEN [tag |-> "Done", keep |-> TRUE]
    ELSE IF r.err = "QueueEmpty" THEN [tag |-> "Pending", keep |-> TRUE]
    ELSE [tag |-> "Done", keep |-> TRUE]

EndLengthMatch(r) ==
    IF r.tag = "Ok" THEN [tag |-> "Done", keep |-> TRUE]
    ELSE IF r.err = "QueueEmpty" THEN [tag |-> "Pending", keep |-> TRUE]
    ELSE [tag |-> "Done", keep |-> FALSE]

(* The match in MethodCall::end. *)
EndMatchDroppingShort(r) ==
    IF r.tag = "Err" /\ r.err = "BufferTooShort" THEN [tag |-> "BufferTooShort", keep |-> FALSE]
    ELSE IF r.tag = "Err" /\ r.err = "QueueEmpty" THEN [tag |-> "Pending", keep |-> TRUE]
    ELSE [tag |-> "Done", keep |-> FALSE]

EndMatchKeepingDone(r) ==
    IF r.tag = "Err" /\ r.err = "BufferTooShort" THEN [tag |-> "BufferTooShort", keep |-> TRUE]
    ELSE IF r.tag = "Err" /\ r.err = "QueueEmpty" THEN [tag |-> "Pending", keep |-> TRUE]
    ELSE [tag |-> "Done", keep |-> TRUE]

EndMatchShortAsPending(r) ==
    IF r.tag = "Err" /\ r.err = "BufferTooShort" THEN [tag |-> "Pending", keep |-> TRUE]
    ELSE IF r.tag = "Err" /\ r.err = "QueueEmpty" THEN [tag |-> "Pending", keep |-> TRUE]
    ELSE [tag |-> "Done", keep |-> FALSE]

EndMatchNeverDone(r) ==
    IF r.tag = "Err" /\ r.err = "BufferTooShort" THEN [tag |-> "BufferTooShort", keep |-> TRUE]
    ELSE [tag |-> "Pending", keep |-> TRUE]

EndMatch(r) ==
    IF r.tag = "Err" /\ r.err = "BufferTooShort" THEN [tag |-> "BufferTooShort", keep |-> TRUE]
    ELSE IF r.tag = "Err" /\ r.err = "QueueEmpty" THEN [tag |-> "Pending", keep |-> TRUE]
    ELSE [tag |-> "Done", keep |-> FALSE]

(* What the variant carries besides the MethodCall. *)
EndRet(m, r) ==
    IF m.tag = "Done" THEN [tag |-> "Done", val |-> r.val, err |-> r.err] ELSE Ret(m.tag, 0)

(* The host calls of end and end_length themselves: one invoke_end. *)
InvokeEndCallsRetrying(len, rc) ==
    IF rc = -9 THEN <<HostCall("invoke_end", len, rc), HostCall("invoke_end", len, rc)>>
    ELSE <<HostCall("invoke_end", len, rc)>>

InvokeEndCalls(len, rc) == <<HostCall("invoke_end", len, rc)>>

(* MethodCall::end_length. *)
EndLength(i) ==
    /\ mcall[i].st = "live"
    /\ LET h == HostInvokeEnd(slot, TRUE, 0)
           r == from_isize(h.rc)
           m == EndLengthMatch(r)
           calls == InvokeEndCalls(0, h.rc) \o
                       (IF m.keep THEN <<>> ELSE MethodCallDropCalls)
       IN  /\ r.tag # "Panic"
           /\ hcalls' = calls
           /\ mcall' = [mcall EXCEPT ![i] =
                          IF m.keep
                          THEN [Polled(@) EXCEPT !.reported = IF m.tag = "Done" THEN r.val ELSE @]
                          ELSE Gone(@, calls)]
           /\ last' = Op("end_length", i, EndRet(m, r))
           /\ slot' = SlotAfter(h.slot, calls)
    /\ UNCHANGED <<tokVars, descVars, listVars>>

(* MethodCall::end with a buffer of len bytes. *)
End(i, len) ==
    /\ mcall[i].st = "live"
    /\ LET h == HostInvokeEnd(slot, FALSE, len)
           r == from_isize(h.rc)
           m == EndMatch(r)
           calls == InvokeEndCalls(len, h.rc) \o
                       (IF m.keep THEN <<>> ELSE MethodCallDropCalls)
       IN  /\ r.tag # "Panic"
           /\ hcalls' = calls
           /\ mcall' = [mcall EXCEPT ![i] =
                          IF m.keep
                          THEN [Polled(@) EXCEPT !.short = @ \/ m.tag = "BufferTooShort"]
                          ELSE Gone(@, calls)]
           /\ last' = OpA("end", i, len, EndRet(m, r))
           /\ slot' = SlotAfter(h.slot, calls)
    /\ UNCHANGED <<tokVars, descVars, listVars>>

(* InvokeEndResult::expect_done: the value it returns. *)
expect_doneSwapped(res) ==
    CASE res.tag = "Done" -> [tag |-> IF res.err = "None" THEN "Ok" ELSE "Err",
                              val |-> res.val, err |-> res.err]
      [] res.tag = "BufferTooShort" -> Err("QueueEmpty")
      [] res.tag = "Pending" -> Err("BufferTooShort")

expect_done(res) ==
    CASE res.tag = "Done" -> [tag |-> IF res.err = "None" THEN "Ok" ELSE "Err",
                              val |-> res.val, err |-> res.err]
      [] res.tag = "BufferTooShort" -> Err("BufferTooShort")
      [] res.tag = "Pending" -> Err("QueueEmpty")

(* expect_done on the InvokeEndResult that end just returned for i: self is *)
(* consumed, so a MethodCall carried by it is dropped.                      *)
ExpectDone(i) ==
    /\ last.op = "end"
    /\ last.id = i
    /\ LET calls == IF last.ret.tag = "Done" THEN <<>> ELSE MethodCallDropCalls
       IN  /\ hcalls' = calls
           /\ mcall' = [mcall EXCEPT ![i] = IF last.ret.tag = "Done" THEN @ ELSE Gone(@, calls)]
           /\ slot' = SlotAfter(slot, calls)
           /\ last' = OpK("expect_done", last.ret.tag, i, expect_done(last.ret))
    /\ UNCHANGED <<tokVars, descVars, listVars>>

(* A MethodCall goes out of scope. *)
DropCall(i) ==
    /\ mcall[i].st = "live"
    /\ hcalls' = MethodCallDropCalls
    /\ mcall' = [mcall EXCEPT ![i] = Gone(@, hcalls')]
    /\ slot' = SlotAfter(slot, hcalls')
    /\ last' = Op("drop_call", i, Ret("None", 0))
    /\ UNCHANGED <<tokVars, descVars, listVars>>

(* The invocation machine starts with one opaque value in hand: an Owned    *)
(* upgraded from the Decoded of an earlier call result, on open entry 0.    *)
InitInv ==
    /\ Instance = [k \in Kinds |-> TRUE]
    /\ takes = [k \in Kinds |-> 0]
    /\ tokens = [k \in Kinds |-> {}]
    /\ table = [d \in Desc |-> d = 0]
    /\ wire = {}
    /\ owned = [o \in OwnedIds |->
                  IF o = 1 THEN [st |-> "live", nz |-> OwnedNew(0), closes |-> 0, src |-> 0]
                  ELSE NoOwned]
    /\ borrowed = [b \in BorrowedIds |-> NoBorrowed]
    /\ decoded = [k \in DecodedIds |-> NoDecoded]
    /\ slot = EmptySlot
    /\ mcall = [i \in TokIds |-> NoCall]
    /\ hlist = [k \in ListKinds |-> NoList]
    /\ listing = [k \in ListKinds |-> NoListing]
    /\ last = Op("init", 0, Ret("None", 0))
    /\ hcalls = <<>>

NextInv ==
    \/ Take("Invoker")
    \/ \E i \in TokIds : DropToken("Invoker", i)
    \/ HostReturnValue
    \/ \E o \in OwnedIds : DropOwned(o)
    \/ \E i \in TokIds : \E p \in Params : StartComponentMethod(i, p)
    \/ \E i \in TokIds : \E op \in ValueOps : \E o \in OwnedIds : \E p \in Params : StartValue(i, op, o, p)
    \/ Slice
    \/ \E i \in TokIds : EndLength(i)
    \/ \E i \in TokIds : \E len \in 0 .. MaxLen : End(i, len)
    \/ \E i \in TokIds : ExpectDone(i)
    \/ \E i \in TokIds : DropCall(i)

SpecInv == InitInv /\ [][NextInv]_vars

(* The caller that keeps its MethodCall and polls it with end and a buffer  *)
(* that holds any result, while timeslices pass.                            *)
Poll == \E i \in TokIds : End(i, MaxLen)

(* The host finishes the pending call in a timeslice. *)
HostFinishes == Slice /\ slot'.st = "ready"

NextPoll ==
    \/ Take("Invoker")
    \/ \E i \in TokIds : \E p \in Params : StartComponentMethod(i, p)
    \/ \E i \in TokIds : \E op \in ValueOps : \E o \in OwnedIds : \E p \in Params : StartValue(i, op, o, p)
    \/ Slice
    \/ Poll

(* The host finishes every call it started and the caller polls again in    *)
(* every timeslice: both are weakly fair.                                   *)
SpecPoll == InitInv /\ [][NextPoll]_vars /\ WF_vars(HostFinishes) /\ WF_vars(Poll)

----------------------------------------------------------------------------
(* Listings: Lister / Listing / ListEntry over the components, MethodLister *)
(* / MethodListing over the methods of a component or opaque value. The     *)
(* host keeps one cursor for each: hlist[k].seq is the sequence it is       *)
(* listing, each entry standing for its name's length in bytes, and         *)
(* hlist[k].pos the number of entries it has handed out.                    *)

Seqs == UNION {[1 .. n -> 1 .. MaxName] : n \in 0 .. MaxEntries}

OpL(name, k, i, arg, ret) == [op |-> name, kind |-> k, id |-> i, arg |-> arg, ret |-> ret]

(* The host's list_next: 1 and the next address, or 0 at the end. *)
HostListNext(h) ==
    IF h.pos < Len(h.seq) THEN [rc |-> 1, list |-> [h EXCEPT !.pos = @ + 1]]
    ELSE [rc |-> 0, list |-> h]

(* The host's list_type on the most recently listed component: its type's   *)
(* length, or BufferTooShort when a buffer is given that cannot hold it.    *)
HostListType(h, null, len) ==
    IF null THEN h.seq[h.pos]
    ELSE IF len < h.seq[h.pos] THEN -4
    ELSE h.seq[h.pos]

(* The host's methods_next: 0 at the end; with a null buffer the length of  *)
(* the next name; BufferTooShort, without advancing, for a buffer that      *)
(* cannot hold it; else the name is written and the cursor advances.        *)
HostMethodsNext(h, null, len) ==
    IF h.pos >= Len(h.seq) THEN [rc |-> 0, list |-> h]
    ELSE IF null THEN [rc |-> h.seq[h.pos + 1], list |-> h]
    ELSE IF len < h.seq[h.pos + 1] THEN [rc |-> -4, list |-> h]
    ELSE [rc |-> h.seq[h.pos + 1], list |-> [h EXCEPT !.pos = @ + 1]]

(* start takes &'lister mut self and the listing it returns holds that      *)
(* borrow: the token is free for a start only when no listing made from it  *)
(* is alive.                                                                *)
ListerFreeShared(k) == TRUE

ListerFree(k) == listing[k].alive = 0

(* A listing just started. Besides the number of listings alive on the      *)
(* token, the record keeps the history of the latest: the entries it        *)
(* returned, how often it returned None (2: twice or more), whether a       *)
(* ListEntry borrows it, the entry a too short buffer was last refused for, *)
(* and whether an entry was returned after such a refusal.                  *)
NewListing(k) ==
    [alive |-> listing[k].alive + 1, got |-> <<>>, nones |-> 0, entry |-> FALSE, short |-> 0,
     retried |-> FALSE, nth |-> IF listing[k].nth = 0 THEN 1 ELSE 2]

(* Lister::start with or without a component type. *)
ListStart(i, typed) ==
    /\ i \in tokens["Lister"]
    /\ ListerFree("Lister")
    /\ \E q \in Seqs : hlist' = [hlist EXCEPT !["Lister"] = [seq |-> q, pos |-> 0]]
    /\ listing' = [listing EXCEPT !["Lister"] = NewListing("Lister")]
    /\ hcalls' = <<HostCall("list_start", IF typed THEN 1 ELSE 0, 0)>>
    /\ last' = OpL("list_start", "Lister", i, 0, Ret("Listing", 0))
    /\ UNCHANGED <<tokVars, descVars, invVars>>

(* Listing::next: if rc == 0 { None } else { Some(ListEntry) }. *)
ListNextSome(rc) == rc # 0

(* next takes &'listing mut self and the ListEntry it returns holds that    *)
(* borrow: the Listing can be advanced only when no ListEntry made from it  *)
(* exists.                                                                  *)
ListingFreeShared(k) == TRUE

ListingFree(k) == ~listing[k].entry

ListNext(i) ==
    /\ i \in tokens["Lister"]
    /\ listing["Lister"].alive > 0
    /\ ListingFree("Lister")
    /\ LET h == HostListNext(hlist["Lister"])
           idx == IF h.rc = 1 THEN h.list.pos ELSE 0
       IN  /\ hlist' = [hlist EXCEPT !["Lister"] = h.list]
           /\ hcalls' = <<HostCall("list_next", 0, h.rc)>>
           /\ IF ListNextSome(h.rc)
              THEN /\ listing' = [listing EXCEPT !["Lister"].got = Append(@, idx),
                                                 !["Lister"].entry = TRUE]
                   /\ last' = OpL("list_next", "Lister", i, 0, Ret("Some", idx))
              ELSE /\ listing' = [listing EXCEPT !["Lister"].nones = IF @ = 0 THEN 1 ELSE 2]
                   /\ last' = OpL("list_next", "Lister", i, 0, Ret("None", 0))
    /\ UNCHANGED <<tokVars, descVars, invVars>>

(* ListEntry::type_name_len. *)
TypeNameLen(i) ==
    /\ i \in tokens["Lister"]
    /\ listing["Lister"].entry
    /\ LET rc == HostListType(hlist["Lister"], TRUE, 0)
           r == from_isize(rc)
       IN  /\ r.tag = "Ok"
           /\ hcalls' = <<HostCall("list_type", 0, rc)>>
           /\ last' = OpL("type_name_len", "Lister", i, 0, r)
    /\ UNCHANGED <<tokVars, descVars, invVars, listVars>>

(* ListEntry::type_name with a buffer of len bytes. *)
TypeName(i, len) ==
    /\ i \in tokens["Lister"]
    /\ listing["Lister"].entry
    /\ LET rc == HostListType(hlist["Lister"], FALSE, len)
           r == from_isize(rc)
       IN  /\ r.tag # "Panic"
           /\ hcalls' = <<HostCall("list_type", len, rc)>>
           /\ listing' = [listing EXCEPT !["Lister"].short =
                                              IF r.tag = "Err" THEN hlist["Lister"].pos ELSE 0,
                                              !["Lister"].retried =
                                              @ \/ (r.tag = "Ok" /\ listing["Lister"].short # 0)]
           /\ last' = OpL("type_name", "Lister", i, len, r)
    /\ UNCHANGED <<tokVars, descVars, invVars, hlist>>

(* A ListEntry goes out of scope. *)
DropEntry ==
    /\ listing["Lister"].entry
    /\ listing' = [listing EXCEPT !["Lister"].entry = FALSE, !["Lister"].short = 0]
    /\ hcalls' = <<>>
    /\ last' = OpL("drop_entry", "Lister", 0, 0, Ret("None", 0))
    /\ UNCHANGED <<tokVars, descVars, invVars, hlist>>

(* A Listing or MethodListing goes out of scope: neither has a Drop impl,   *)
(* and a Listing borrowed by a ListEntry cannot be dropped.                 *)
DropListing(k) ==
    /\ listing[k].alive > 0
    /\ ~listing[k].entry
    /\ listing' = [listing EXCEPT ![k].alive = @ - 1]
    /\ hcalls' = <<>>
    /\ last' = OpL("drop_listing", k, 0, 0, Ret("None", 0))
    /\ UNCHANGED <<tokVars, descVars, invVars, hlist>>

(* MethodLister::start_component on a component that exists or not. *)
MethodsStartComponent(i, exists) ==
    /\ i \in tokens["MethodLister"]
    /\ ListerFree("MethodLister")
    /\ LET rc == IF exists THEN 0 ELSE -5
           r == from_i32(rc)
       IN  /\ hcalls' = <<HostCall("methods_start_component", 0, rc)>>
           /\ IF r.tag = "Ok"
              THEN /\ \E q \in Seqs : hlist' = [hlist EXCEPT !["MethodLister"] = [seq |-> q, pos |-> 0]]
                   /\ listing' = [listing EXCEPT !["MethodLister"] = NewListing("MethodLister")]
                   /\ last' = OpL("start_component", "MethodLister", i, 0, Ret("MethodListing", 0))
              ELSE /\ UNCHANGED <<hlist, listing>>
                   /\ last' = OpL("start_component", "MethodLister", i, 0, r)
    /\ UNCHANGED <<tokVars, descVars, invVars>>

(* MethodLister::start_value on descriptor.as_descriptor().as_raw() of a    *)
(* live Owned; what methods_start_value returns is ignored.                 *)
MethodsStartValue(i, o) ==
    /\ i \in tokens["MethodLister"]
    /\ ListerFree("MethodLister")
    /\ owned[o].st = "live"
    /\ LET d == AsDescriptorRaw(owned[o].nz)
           rc == IF d \in Desc /\ table[d] THEN 0 ELSE -10
       IN  /\ hcalls' = <<HostCall("methods_start_value", d, rc)>>
           /\ IF rc = 0
              THEN \E q \in Seqs : hlist' = [hlist EXCEPT !["MethodLister"] = [seq |-> q, pos |-> 0]]
              ELSE hlist' = hlist
    /\ listing' = [listing EXCEPT !["MethodLister"] = NewListing("MethodLister")]
    /\ last' = OpL("start_value", "MethodLister", i, 0, Ret("MethodListing", 0))
    /\ UNCHANGED <<tokVars, descVars, invVars>>

(* What MethodListing::next_len passes to methods_next: null pointers. *)
MethodsNextLenArgsBuffer == [null |-> FALSE, len |-> MaxName]

MethodsNextLenArgs == [null |-> TRUE, len |-> 0]

(* MethodListing::next_len: NonZeroUsize::new of the length. *)
MethodsNextLen(i) ==
    /\ i \in tokens["MethodLister"]
    /\ listing["MethodLister"].alive > 0
    /\ LET a == MethodsNextLenArgs
           h == HostMethodsNext(hlist["MethodLister"], a.null, a.len)
           r == from_isize(h.rc)
       IN  /\ r.tag = "Ok"
           /\ hlist' = [hlist EXCEPT !["MethodLister"] = h.list]
           /\ hcalls' = <<HostCall("methods_next", a.len, h.rc)>>
           /\ listing' = [listing EXCEPT !["MethodLister"].nones =
                                              IF r.val # 0 THEN @ ELSE IF @ = 0 THEN 1 ELSE 2]
           /\ last' = OpL("next_len", "MethodLister", i, 0,
                          IF r.val = 0 THEN Ret("None", 0) ELSE Ret("Some", r.val))
    /\ UNCHANGED <<tokVars, descVars, invVars>>

(* MethodListing::next: if bytes_written == 0 { Ok(None) }. *)
MethodsNextNoneNever(n) == FALSE

MethodsNextNone(n) == n = 0

(* MethodListing::next with a buffer of len bytes: an error is returned as  *)
(* it is, 0 bytes written is None, else the name and attributes of the      *)
(* entry the host wrote.                                                    *)
MethodsNext(i, len) ==
    /\ i \in tokens["MethodLister"]
    /\ listing["MethodLister"].alive > 0
    /\ LET h == HostMethodsNext(hlist["MethodLister"], FALSE, len)
           r == from_isize(h.rc)
       IN  /\ r.tag # "Panic"
           /\ hlist' = [hlist EXCEPT !["MethodLister"] = h.list]
           /\ hcalls' = <<HostCall("methods_next", len, h.rc)>>
           /\ IF r.tag = "Err"
              THEN /\ listing' = [listing EXCEPT !["MethodLister"].short = hlist["MethodLister"].pos + 1]
                   /\ last' = OpL("next", "MethodLister", i, len, r)
              ELSE IF MethodsNextNone(r.val)
              THEN /\ listing' = [listing EXCEPT !["MethodLister"].nones = IF @ = 0 THEN 1 ELSE 2]
                   /\ last' = OpL("next", "MethodLister", i, len, Ret("None", 0))
              ELSE /\ listing' = [listing EXCEPT !["MethodLister"].got = Append(@, h.list.pos),
                                                 !["MethodLister"].short = 0,
                                                 !["MethodLister"].retried =
                                                 @ \/ listing["MethodLister"].short # 0]
                   /\ last' = OpL("next", "MethodLister", i, len, Ret("Some", h.list.pos))
    /\ UNCHANGED <<tokVars, descVars, invVars>>

(* The listing machine starts with both listers taken, one of them kept    *)
(* and the other dropped since, and one opaque value in hand, on open       *)
(* entry 0.                                                                 *)
InitList ==
    /\ Instance = [k \in Kinds |-> k \notin ListKinds]
    /\ takes = [k \in Kinds |-> IF k \in ListKinds THEN 1 ELSE 0]
    /\ \E kept \in ListKinds : tokens = [k \in Kinds |-> IF k = kept THEN {1} ELSE {}]
    /\ table = [d \in Desc |-> d = 0]
    /\ wire = {}
    /\ owned = [o \in OwnedIds |->
                  IF o = 1 THEN [st |-> "live", nz |-> OwnedNew(0), closes |-> 0, src |-> 0]
                  ELSE NoOwned]
    /\ borrowed = [b \in BorrowedIds |-> NoBorrowed]
    /\ decoded = [k \in DecodedIds |-> NoDecoded]
    /\ slot = EmptySlot
    /\ mcall = [i \in TokIds |-> NoCall]
    /\ hlist = [k \in ListKinds |-> NoList]
    /\ listing = [k \in ListKinds |-> NoListing]
    /\ last = Op("init", 0, Ret("None", 0))
    /\ hcalls = <<>>

NextList ==
    \/ \E k \in ListKinds : \E i \in TokIds : DropToken(k, i)
    \/ \E i \in TokIds : \E typed \in BOOLEAN : ListStart(i, typed)
    \/ \E i \in TokIds : ListNext(i)
    \/ \E i \in TokIds : TypeNameLen(i)
    \/ \E i \in TokIds : \E len \in 0 .. MaxName : TypeName(i, len)
    \/ DropEntry
    \/ \E k \in ListKinds : DropListing(k)
    \/ \E i \in TokIds : \E exists \in BOOLEAN : MethodsStartComponent(i, exists)
    \/ \E i \in TokIds : \E o \in OwnedIds : MethodsStartValue(i, o)
    \/ \E i \in TokIds : MethodsNextLen(i)
    \/ \E i \in TokIds : \E len \in 0 .. MaxName : MethodsNext(i, len)

SpecList == InitList /\ [][NextList]_vars

----------------------------------------------------------------------------
(* The calls on opaque values, with the handles changing hands meanwhile.   *)

(* The host's documentation_value on descriptor d: BadDescriptor for an     *)
(* entry that is not open, NoSuchMethod, the length, or BufferTooShort for  *)
(* a buffer that cannot hold the text.                                      *)
HostDocumentationValue(tbl, d, null, len) ==
    IF ~(d \in Desc /\ tbl[d]) THEN {-10}
    ELSE {-6} \cup {IF null \/ len >= n THEN n ELSE -4 : n \in 0 .. MaxLen}

(* documentation_value_length, here on a Borrowed. *)
DocumentationValueLength(b) ==
    /\ borrowed[b].st = "live"
    /\ LET d == AsDescriptorRaw(borrowed[b].nz)
       IN  \E rc \in HostDocumentationValue(table, d, TRUE, 0) :
              /\ from_isize(rc).tag # "Panic"
              /\ hcalls' = <<HostCall("documentation_value", d, rc)>>
              /\ last' = OpA("documentation_value_length", b, 0, from_isize(rc))
    /\ UNCHANGED <<tokVars, descVars, invVars, listVars>>

(* documentation_value with a buffer of len bytes, on a Borrowed as well. *)
DocumentationValue(b, len) ==
    /\ borrowed[b].st = "live"
    /\ LET d == AsDescriptorRaw(borrowed[b].nz)
       IN  \E rc \in HostDocumentationValue(table, d, FALSE, len) :
              /\ from_isize(rc).tag # "Panic"
              /\ hcalls' = <<HostCall("documentation_value", d, rc)>>
              /\ last' = OpA("documentation_value", b, len, from_isize(rc))
    /\ UNCHANGED <<tokVars, descVars, invVars, listVars>>

(* The three tokens were taken and one of them was kept; with the Invoker   *)
(* there is one opaque value in hand, on open entry 0.                      *)
InitCalls ==
    /\ Instance = [k \in Kinds |-> FALSE]
    /\ takes = [k \in Kinds |-> 1]
    /\ \E kept \in Kinds :
          /\ tokens = [k \in Kinds |-> IF k = kept THEN {1} ELSE {}]
          /\ table = [d \in Desc |-> d = 0 /\ kept = "Invoker"]
          /\ owned = [o \in OwnedIds |->
                        IF o = 1 /\ kept = "Invoker"
                        THEN [st |-> "live", nz |-> OwnedNew(0), closes |-> 0, src |-> 0]
                        ELSE NoOwned]
    /\ wire = {}
    /\ borrowed = [b \in BorrowedIds |-> NoBorrowed]
    /\ decoded = [k \in DecodedIds |-> NoDecoded]
    /\ slot = EmptySlot
    /\ mcall = [i \in TokIds |-> NoCall]
    /\ hlist = [k \in ListKinds |-> NoList]
    /\ listing = [k \in ListKinds |-> NoListing]
    /\ last = Op("init", 0, Ret("None", 0))
    /\ hcalls = <<>>

(* Every wrapper that fetches, polls, advances, duplicates or starts. *)
NextCalls ==
    \/ \E o \in OwnedIds : Dup(o)
    \/ \E i \in TokIds : \E p \in Params : StartComponentMethod(i, p)
    \/ \E i \in TokIds : \E op \in ValueOps : \E o \in OwnedIds : \E p \in Params : StartValue(i, op, o, p)
    \/ Slice
    \/ \E i \in TokIds : EndLength(i)
    \/ \E i \in TokIds : \E len \in 0 .. MaxLen : End(i, len)
    \/ \E i \in TokIds : DropCall(i)
    \/ \E i \in TokIds : \E typed \in BOOLEAN : ListStart(i, typed)
    \/ \E i \in TokIds : ListNext(i)
    \/ DropEntry
    \/ \E k \in ListKinds : DropListing(k)
    \/ \E i \in TokIds : \E exists \in BOOLEAN : MethodsStartComponent(i, exists)
    \/ \E i \in TokIds : \E len \in 0 .. MaxName : MethodsNext(i, len)

SpecCalls == InitCalls /\ [][NextCalls]_vars

(* One of the tokens was kept and one opaque value is in hand, on open      *)
(* entry 0; where the token kept is the Lister, which starts nothing on a   *)
(* value, a Borrowed of the value is in hand as well.                       *)
InitTargets ==
    /\ Instance = [k \in Kinds |-> FALSE]
    /\ takes = [k \in Kinds |-> 1]
    /\ \E kept \in Kinds :
          /\ tokens = [k \in Kinds |-> IF k = kept THEN {1} ELSE {}]
          /\ borrowed = [b \in BorrowedIds |->
                           IF b = 1 /\ kept = "Lister"
                           THEN [st |-> "live", nz |-> OwnedNew(0), owner |-> 1]
                           ELSE NoBorrowed]
    /\ table = [d \in Desc |-> d = 0]
    /\ wire = {}
    /\ owned = [o \in OwnedIds |->
                  IF o = 1 THEN [st |-> "live", nz |-> OwnedNew(0), closes |-> 0, src |-> 0]
                  ELSE NoOwned]
    /\ decoded = [k \in DecodedIds |-> NoDecoded]
    /\ slot = EmptySlot
    /\ mcall = [i \in TokIds |-> NoCall]
    /\ hlist = [k \in ListKinds |-> NoList]
    /\ listing = [k \in ListKinds |-> NoListing]
    /\ last = Op("init", 0, Ret("None", 0))
    /\ hcalls = <<>>

(* The handles are duplicated and dropped, and every operation that names   *)
(* an opaque value to the host is applied to them.                          *)
NextTargets ==
    \/ \E o \in OwnedIds : Dup(o)
    \/ \E o \in OwnedIds : DropOwned(o)
    \/ \E b \in BorrowedIds : CopyBorrowed(b)
    \/ \E b \in BorrowedIds : DropBorrowed(b)
    \/ \E b \in BorrowedIds : DocumentationValueLength(b)
    \/ \E b \in BorrowedIds : \E len \in 0 .. MaxLen : DocumentationValue(b, len)
    \/ \E i \in TokIds : \E op \in ValueOps : \E o \in OwnedIds : \E p \in Params : StartValue(i, op, o, p)
    \/ \E i \in TokIds : DropCall(i)
    \/ \E i \in TokIds : \E o \in OwnedIds : MethodsStartValue(i, o)
    \/ \E k \in ListKinds : DropListing(k)

SpecTargets == InitTargets /\ [][NextTargets]_vars

----------------------------------------------------------------------------
(* The conversions of host return values and bitmasks, applied to every     *)
(* value of the model's integer range.                                      *)

(* Error::from_isize on value. *)
CallFromIsize(value) ==
    /\ last' = OpL("from_isize", "-", 0, value, from_isize(value))
    /\ hcalls' = <<>>
    /\ UNCHANGED <<tokVars, descVars, invVars, listVars>>

(* Error::from_i32 on value. *)
CallFromI32(value) ==
    /\ last' = OpL("from_i32", "-", 0, value, from_i32(value))
    /\ hcalls' = <<>>
    /\ UNCHANGED <<tokVars, descVars, invVars, listVars>>

(* From<u32> for MethodAttributes: direct is bit 0, getter bit 1, setter    *)
(* bit 2 of the mask.                                                       *)
MethodAttributesFromSwapped(value) ==
    [direct |-> (value % 2) # 0, getter |-> ((value \div 4) % 2) # 0, setter |-> ((value \div 2) % 2) # 0]

MethodAttributesFrom(value) ==
    [direct |-> (value % 2) # 0, getter |-> ((value \div 2) % 2) # 0, setter |-> ((value \div 4) % 2) # 0]

CallAttributesFrom(value) ==
    /\ last' = OpL("attributes_from", "-", 0, value, MethodAttributesFrom(value))
    /\ hcalls' = <<>>
    /\ UNCHANGED <<tokVars, descVars, invVars, listVars>>

(* What a wrapper does with the value rc the host returned to it, by the    *)
(* way the wrapper treats the return value: through from_isize or from_i32  *)
(* (the error is returned with ?), through from_isize and                   *)
(* unwrap_or_else(panic_or_trap) (Lister::start, type_name_len, next_len),  *)
(* tested against 0 (Listing::next), or ignored (start_value, Drop for      *)
(* Owned, Drop for MethodCall, computer::address).                          *)
Treatments == {"from_isize", "from_i32", "unwrap", "zero_test", "ignored"}

Receive(how, rc) ==
    CASE how = "from_isize" -> from_isize(rc)
      [] how = "from_i32" -> from_i32(rc)
      [] how = "unwrap" -> (IF from_isize(rc).tag = "Ok" THEN from_isize(rc) ELSE Panic)
      [] how = "zero_test" -> (IF ListNextSome(rc) THEN Ret("Some", 0) ELSE Ret("None", 0))
      [] how = "ignored" -> Ret("Value", 0)

WrapperReceives(how, rc) ==
    /\ last' = OpL("receive", how, 0, rc, Receive(how, rc))
    /\ hcalls' = <<>>
    /\ UNCHANGED <<tokVars, descVars, invVars, listVars>>

(* MethodCall::end and end_length on the value rc of invoke_end: the        *)
(* variant returned, and in kind whether the MethodCall is in it.           *)
Classify(m, r) ==
    IF r.tag = "Panic" THEN [kind |-> "abort", ret |-> Panic]
    ELSE [kind |-> IF m.keep THEN "kept" ELSE "dropped", ret |-> EndRet(m, r)]

ClassifyEnd(rc) ==
    /\ LET c == Classify(EndMatch(from_isize(rc)), from_isize(rc))
       IN  last' = OpL("classify_end", c.kind, 0, rc, c.ret)
    /\ hcalls' = <<>>
    /\ UNCHANGED <<tokVars, descVars, invVars, listVars>>

ClassifyEndLength(rc) ==
    /\ LET c == Classify(EndLengthMatch(from_isize(rc)), from_isize(rc))
       IN  last' = OpL("classify_end_length", c.kind, 0, rc, c.ret)
    /\ hcalls' = <<>>
    /\ UNCHANGED <<tokVars, descVars, invVars, listVars>>

(* Owned::new on any u32, and as_raw of the Owned, as_raw of a Borrowed     *)
(* taken from it (as_descriptor copies the NonZeroU32) and into_inner.      *)
CallOwnedNew(raw) ==
    /\ \E b \in OwnedNewBuilds(raw) :
          last' = OpL("owned_new", b.tag, 0, raw,
                      IF b.tag = "Ok"
                      THEN [nz |-> b.nz, raw |-> as_raw(b.nz), braw |-> as_raw(b.nz),
                            inner |-> as_raw(b.nz)]
                      ELSE [nz |-> b.nz, raw |-> AsU32(b.nz - 1), braw |-> AsU32(b.nz - 1),
                            inner |-> AsU32(b.nz - 1)])
    /\ hcalls' = <<>>
    /\ UNCHANGED <<tokVars, descVars, invVars, listVars>>

(* Decode for Decoded on a tag followed by any u32. *)
CallDecode(tag, v) ==
    /\ last' = OpL("decode_u32", IF tag = IDENTIFIER THEN "Identifier" ELSE "other", 0, v,
                   DecodedDecode([tag |-> tag, val |-> v]))
    /\ hcalls' = <<>>
    /\ UNCHANGED <<tokVars, descVars, invVars, listVars>>

NextConv ==
    \/ \E raw \in U32 : CallOwnedNew(raw)
    \/ \E tag \in {IDENTIFIER, BINARY_UUID} : \E v \in U32 : CallDecode(tag, v)
    \/ \E v \in I32 : CallFromIsize(v)
    \/ \E v \in I32 : CallFromI32(v)
    \/ \E v \in 0 .. 2 ^ Bits - 1 : CallAttributesFrom(v)
    \/ \E how \in Treatments : \E rc \in I32 : WrapperReceives(how, rc)
    \/ \E rc \in I32 : ClassifyEnd(rc)
    \/ \E rc \in I32 : ClassifyEndLength(rc)

SpecConv == Init /\ [][NextConv]_vars

----------------------------------------------------------------------------
(* C1: for each token kind, take() returns the token iff no earlier take()  *)
(* of that kind was made; every later take() of the kind returns None, also *)
(* after the token was dropped and whatever was taken of the other kinds.   *)
(* takes' counts the take() calls including the one of this step.           *)
C1_TakeOnce ==
    [][\A k \in Kinds :
          takes'[k] # takes[k] =>
              /\ (last'.ret.tag = "Some") <=> (takes[k] = 0)
              /\ (last'.ret.tag = "None") <=> (takes[k] > 0)
              /\ tokens'[k] = (IF takes[k] = 0 THEN {1} ELSE tokens[k])
              /\ \A j \in Kinds \ {k} : tokens'[j] = tokens[j] /\ Instance'[j] = Instance[j]
              /\ Instance'[k] = FALSE]_vars

(* A third take() of Lister returns None after the token was taken and      *)
(* dropped, while the Invoker's token is held.                              *)
C1_Witness ==
    /\ last.op = "take" /\ last.kind = "Lister" /\ last.ret.tag = "None"
    /\ takes["Lister"] = 3 /\ tokens["Lister"] = {}
    /\ tokens["Invoker"] = {1}

----------------------------------------------------------------------------
(* Claims about the descriptors. RawOf is the raw descriptor an Owned       *)
(* stands for: its NonZeroU32 field minus one.                              *)

RawOf(o) == owned[o].nz - 1

Live(o) == owned[o].st = "live"

(* C2: for every Owned, exactly one close is sent to the host over its      *)
(* lifetime: none while it is alive, whatever borrow, as_raw, encode and    *)
(* dup did to it, and exactly one, for its own descriptor, when it is       *)
(* dropped.                                                                 *)
C2_ExactlyOneClose ==
    \A o \in OwnedIds :
        /\ Live(o) => owned[o].closes = 0
        /\ owned[o].st = "dropped" => owned[o].closes = 1
        /\ (last.op = "drop_owned" /\ last.id = o) =>
              /\ Len(hcalls) = 1
              /\ hcalls[1].call = "close"
              /\ hcalls[1].arg = RawOf(o)

(* An Owned that was duplicated has been dropped, with its one close. *)
C2_Witness ==
    /\ last.op = "drop_owned"
    /\ owned[last.id].st = "dropped"
    /\ owned[last.id].closes = 1
    /\ \E q \in OwnedIds : owned[q].src = last.id

(* C3: at most one Owned exists for any host table entry, every Owned that  *)
(* exists refers to an open entry, and no close is sent for an entry that   *)
(* is not open (the host answers every close with 0, never BadDescriptor).  *)
C3_AtMostOneOwner ==
    /\ \A o, q \in OwnedIds : (o # q /\ Live(o) /\ Live(q)) => owned[o].nz # owned[q].nz
    /\ \A o \in OwnedIds : Live(o) => (RawOf(o) \in Desc /\ table[RawOf(o)])
    /\ \A i \in DOMAIN hcalls : hcalls[i].call = "close" => hcalls[i].rc = 0

(* Two Owned values are alive, one the duplicate of the other, and the      *)
(* table is full.                                                           *)
C3_Witness ==
    /\ last.op = "dup" /\ last.ret.tag = "Ok"
    /\ \A o \in OwnedIds : Live(o)
    /\ \A d \in Desc : table[d]

(* C4: dropping an Owned leaves its duplicate, and the Owned it is a        *)
(* duplicate of, alive with another raw value and an open entry; a          *)
(* duplicate's entry is open as long as the duplicate is alive.             *)
C4_DupIndependent ==
    [][/\ last'.op = "drop_owned" =>
             \A q \in OwnedIds :
                 (Live(q) /\ q # last'.id /\ (owned[q].src = last'.id \/ owned[last'.id].src = q)) =>
                     /\ owned'[q] = owned[q]
                     /\ owned[q].nz # owned[last'.id].nz
                     /\ hcalls'[1].arg # RawOf(q)
                     /\ table[RawOf(q)] /\ table'[RawOf(q)]
       /\ \A q \in OwnedIds :
             (owned'[q].st = "live" /\ owned'[q].src # 0) => table'[owned'[q].nz - 1]]_vars

(* The original was dropped and its duplicate is alive on an open entry. *)
C4_Witness ==
    /\ last.op = "drop_owned"
    /\ \E q \in OwnedIds : Live(q) /\ owned[q].src = last.id /\ table[RawOf(q)]
    /\ ~table[RawOf(last.id)]

(* C5: dup issues one host dup on the handle's raw value; when the table is *)
(* full it returns TooManyDescriptors and changes neither the Owned values  *)
(* nor the table; on success the new Owned holds exactly the descriptor the *)
(* host returned.                                                           *)
C5_DupTableFull ==
    [][last'.op = "dup" =>
          /\ Len(hcalls') = 1
          /\ hcalls'[1].call = "dup"
          /\ hcalls'[1].arg = RawOf(last'.id)
          /\ (\A d \in Desc : table[d]) =>
                /\ last'.ret = Err("TooManyDescriptors")
                /\ owned' = owned
                /\ table' = table
          /\ last'.ret.tag = "Ok" =>
                /\ owned[last'.ret.val].st = "none"
                /\ owned'[last'.ret.val].st = "live"
                /\ owned'[last'.ret.val].nz - 1 = hcalls'[1].rc
                /\ hcalls'[1].rc \in Desc
                /\ ~table[hcalls'[1].rc]
          /\ last'.ret.tag \in {"Ok", "Err"}
          /\ owned'[last'.id] = owned[last'.id]]_vars

(* dup failed on a full table. *)
C5_Witness ==
    /\ last.op = "dup"
    /\ last.ret = Err("TooManyDescriptors")
    /\ \A d \in Desc : table[d]
    /\ Live(last.id)

(* C6: into_inner returns the raw value and sends no close, then or later:  *)
(* the entry of a leaked Owned stays open.                                  *)
C6_IntoInnerLeaks ==
    /\ \A o \in OwnedIds :
          owned[o].st = "leaked" => (owned[o].closes = 0 /\ table[RawOf(o)])
    /\ last.op = "into_inner" =>
          /\ hcalls = <<>>
          /\ owned[last.id].st = "leaked"
          /\ last.ret = Ok(RawOf(last.id))

(* An Owned was leaked by into_inner and, later, another Owned was dropped. *)
C6_Witness ==
    /\ last.op = "drop_owned"
    /\ \E o \in OwnedIds : owned[o].st = "leaked" /\ table[RawOf(o)]

PureOps ==
    {"as_descriptor", "copy_borrowed", "drop_borrowed", "as_raw", "as_raw_borrowed",
     "encode", "encode_borrowed", "into_inner", "into_owned", "decode", "drop_decoded"}

(* C7: only dup (one host dup) and the drop of an Owned (one host close)    *)
(* call the host; borrowing, as_raw, into_inner, into_owned, copying or     *)
(* dropping a Borrowed and encoding make no host call and leave the table   *)
(* as it is; every Borrowed carries the raw value of its live Owned.        *)
C7_HostBoundary ==
    [][/\ last'.op \in PureOps => (hcalls' = <<>> /\ table' = table)
       /\ last'.op = "dup" => (Len(hcalls') = 1 /\ hcalls'[1].call = "dup")
       /\ last'.op = "drop_owned" => (Len(hcalls') = 1 /\ hcalls'[1].call = "close")
       /\ \A b \in BorrowedIds :
             borrowed'[b].st = "live" =>
                 /\ owned'[borrowed'[b].owner].st = "live"
                 /\ borrowed'[b].nz = owned'[borrowed'[b].owner].nz
       /\ last'.op = "as_raw_borrowed" =>
             last'.ret = Ok(RawOf(borrowed[last'.id].owner))]_vars

(* Two Borrowed values of one Owned exist and one was just encoded. *)
C7_Witness ==
    /\ last.op = "encode_borrowed"
    /\ \A b \in BorrowedIds : borrowed[b].st = "live" /\ borrowed[b].owner = borrowed[1].owner
    /\ last.ret.val = cbor_encode(RawOf(borrowed[1].owner))

(* C8: decoding, dropping a Decoded and into_owned make no host call;       *)
(* into_owned yields an Owned with the Decoded's raw value, and the drop of *)
(* that Owned sends exactly one close, for that value.                      *)
C8_DecodedInert ==
    [][/\ last'.op \in {"decode", "drop_decoded", "into_owned"} =>
             (hcalls' = <<>> /\ table' = table)
       /\ last'.op = "into_owned" =>
             \E k \in DecodedIds :
                 /\ decoded[k].st = "live" /\ decoded'[k].st = "none"
                 /\ owned[last'.id].st = "none" /\ owned'[last'.id].st = "live"
                 /\ owned'[last'.id].nz = decoded[k].nz
       /\ (last'.op = "drop_owned" /\ owned[last'.id].src = 0) =>
             /\ hcalls' = <<HostCall("close", RawOf(last'.id), 0)>>
             /\ owned'[last'.id].closes = 1]_vars

(* A Decoded made from crafted bytes that names the descriptor of a live    *)
(* Owned was dropped: the Owned's entry is still open.                      *)
C8_Witness ==
    /\ last.op = "drop_decoded"
    /\ \E o \in OwnedIds : Live(o) /\ RawOf(o) = last.ret.val /\ table[RawOf(o)]
    /\ \A k \in DecodedIds : decoded[k].st = "none"

----------------------------------------------------------------------------
(* Claims about the invocation. *)

(* C9: at most one MethodCall exists at any time, a call in the host's slot *)
(* belongs to the MethodCall that exists, and each start issues its one     *)
(* host call when no MethodCall exists and the host's slot is empty.        *)
C9_OneCallAtATime ==
    [][/\ Cardinality({i \in TokIds : mcall'[i].st = "live"}) <= 1
       /\ slot'.st # "empty" => \E i \in TokIds : mcall'[i].st = "live"
       /\ last'.op \in StartOps =>
             /\ slot.st = "empty"
             /\ LiveCalls = {}
             /\ Len(hcalls') = 1
             /\ hcalls'[1].call = last'.op]_vars

(* A second call was started on the Invoker, on an opaque value, and is in  *)
(* the host's slot.                                                         *)
C9_Witness ==
    /\ last.op = "value_indexed_write"
    /\ mcall[last.id].st = "live"
    /\ mcall[last.id].nth = 2
    /\ slot.st = "pending"

(* C10: end on a MethodCall whose start returned Complete, with no poll and *)
(* no timeslice in between and a buffer that holds the result, returns Done *)
(* with the outcome of the call: its length, or its error.                  *)
C10_CompleteThenEnd ==
    [][(/\ last'.op = "end"
        /\ mcall[last'.id].hint = "Complete"
        /\ ~mcall[last'.id].polled
        /\ ~mcall[last'.id].sliced
        /\ slot.st = "ready" => slot.res <= last'.arg)
       => /\ last'.ret.tag = "Done"
          /\ slot.st = "ready"
          /\ slot.res >= 0 => (last'.ret.val = slot.res /\ last'.ret.err = "None")
          /\ slot.res < 0 => last'.ret.err = from_isize(slot.res).err]_vars

(* A call that started Complete was fetched at once and gave its result of  *)
(* MaxLen bytes.                                                            *)
C10_Witness ==
    /\ last.op = "end"
    /\ last.ret = [tag |-> "Done", val |-> MaxLen, err |-> "None"]
    /\ mcall[last.id].st = "gone"
    /\ mcall[last.id].hint = "Complete"
    /\ ~mcall[last.id].polled
    /\ ~mcall[last.id].sliced

(* No invoke_cancel among the host calls of a step. *)
NoCancel(calls) == \A n \in DOMAIN calls : calls[n].call # "invoke_cancel"

(* The invoke_cancel calls among the host calls of a step. *)
CancelCount(calls) == Cardinality({n \in DOMAIN calls : calls[n].call = "invoke_cancel"})

(* C11: end or end_length on a MethodCall whose start returned Incomplete,  *)
(* before any timeslice has passed, returns Pending with the MethodCall:    *)
(* the call stays alive, no invoke_cancel is sent and the host's slot keeps *)
(* the pending call.                                                        *)
C11_IncompleteThenPending ==
    [][(/\ last'.op \in {"end", "end_length"}
        /\ mcall[last'.id].hint = "Incomplete"
        /\ ~mcall[last'.id].sliced)
       => /\ last'.ret = Ret("Pending", 0)
          /\ mcall'[last'.id].st = "live"
          /\ NoCancel(hcalls')
          /\ slot.st = "pending"
          /\ slot' = slot]_vars

(* A call started Incomplete was polled with end_length in the same         *)
(* timeslice and is still alive and pending.                                *)
C11_Witness ==
    /\ last.op = "end_length"
    /\ last.ret.tag = "Pending"
    /\ mcall[last.id].st = "live"
    /\ mcall[last.id].hint = "Incomplete"
    /\ ~mcall[last.id].sliced
    /\ slot.st = "pending"

(* C12: end with a buffer shorter than the result of a finished call        *)
(* returns BufferTooShort with the MethodCall, sends no invoke_cancel and   *)
(* leaves the result with the host; and once that happened, an end with a   *)
(* buffer of at least the length end_length reported returns Done(Ok(n))    *)
(* with n that length.                                                      *)
C12_BufferTooShortRetry ==
    [][/\ (/\ last'.op = "end"
           /\ slot.st = "ready"
           /\ slot.res >= 0
           /\ last'.arg < slot.res)
          => /\ last'.ret = Ret("BufferTooShort", 0)
             /\ mcall'[last'.id].st = "live"
             /\ NoCancel(hcalls')
             /\ slot' = slot
       /\ (/\ last'.op = "end"
           /\ mcall[last'.id].short
           /\ mcall[last'.id].reported >= 0
           /\ last'.arg >= mcall[last'.id].reported)
          => last'.ret = [tag |-> "Done", val |-> mcall[last'.id].reported, err |-> "None"]]_vars

(* After BufferTooShort and an end_length that reported MaxLen, end with a  *)
(* buffer of MaxLen bytes fetched the result.                               *)
C12_Witness ==
    /\ last.op = "end"
    /\ last.arg = MaxLen
    /\ last.ret = [tag |-> "Done", val |-> MaxLen, err |-> "None"]
    /\ mcall[last.id].short
    /\ mcall[last.id].reported = MaxLen

(* C13: dropping a MethodCall whose call is pending sends exactly one       *)
(* invoke_cancel and empties the host's slot; the Invoker can start a call  *)
(* again at once, and that start is answered by the host alone: it leaves   *)
(* in the slot what the host put there for the new call and returns the     *)
(* hint of the host's answer.                                               *)
C13_DropPendingCancels ==
    /\ [](last.op = "drop_call" =>
             /\ last.id \in tokens["Invoker"]
             /\ ENABLED StartComponentMethod(last.id, "valid"))
    /\ [][/\ (last'.op = "drop_call" /\ slot.st = "pending")
             => /\ hcalls' = <<HostCall("invoke_cancel", 0, 0)>>
                /\ slot' = EmptySlot
                /\ mcall'[last'.id].st = "gone"
          /\ (last'.op \in StartOps /\ mcall[last'.id].st = "gone")
             => /\ slot = EmptySlot
                /\ hcalls'[1].rc < 0 =>
                      /\ last'.ret = from_i32(hcalls'[1].rc)
                      /\ slot' = EmptySlot
                /\ hcalls'[1].rc >= 0 =>
                      /\ slot' \in HostStarted(hcalls'[1].rc)
                      /\ last'.ret.tag = IF hcalls'[1].rc # 0 THEN "Complete" ELSE "Incomplete"
                      /\ mcall'[last'.id] = [NoCall EXCEPT !.st = "live", !.hint = last'.ret.tag,
                                                           !.nth = 2]]_vars

(* A MethodCall was dropped in the timeslice of its Incomplete start, so    *)
(* while its call was pending: one invoke_cancel went out, the slot is      *)
(* empty and the Invoker is there for the next start.                       *)
C13_Witness ==
    /\ last.op = "drop_call"
    /\ hcalls = <<HostCall("invoke_cancel", 0, 0)>>
    /\ mcall[last.id].st = "gone"
    /\ mcall[last.id].hint = "Incomplete"
    /\ ~mcall[last.id].sliced
    /\ mcall[last.id].cancels = 1
    /\ slot = EmptySlot
    /\ last.id \in tokens["Invoker"]

(* C14 as stated: when end returns Done, no invoke_cancel is sent for the   *)
(* call.                                                                    *)
C14_NoCancelAfterDone ==
    [][(last'.op = "end" /\ last'.ret.tag = "Done") => NoCancel(hcalls')]_vars

(* C14 as amended: a fetched call is terminal and is cancelled all the      *)
(* same. When end returns Done it has sent its invoke_end and then one      *)
(* invoke_cancel, the MethodCall being dropped inside end; after a fetch    *)
(* that succeeded the cancel finds the slot already empty. Every MethodCall *)
(* that ceases to exist, terminal or not, has one invoke_cancel sent in the *)
(* step that ends it.                                                       *)
C14_CancelAlsoAfterDone ==
    [][/\ (last'.op = "end" /\ last'.ret.tag = "Done")
          => /\ Len(hcalls') = 2
             /\ hcalls'[1].call = "invoke_end"
             /\ hcalls'[2] = HostCall("invoke_cancel", 0, 0)
             /\ last'.ret.err = "None" => HostInvokeEnd(slot, FALSE, last'.arg).slot = EmptySlot
             /\ slot' = EmptySlot
             /\ mcall'[last'.id].st = "gone"
       /\ \A i \in TokIds :
             (mcall[i].st = "live" /\ mcall'[i].st # "live")
             => /\ CancelCount(hcalls') = 1
                /\ hcalls'[Len(hcalls')].call = "invoke_cancel"]_vars

(* end fetched a result of one byte and cancelled the call it had    *)
(* just consumed.                                                           *)
C14_Witness ==
    /\ last.op = "end"
    /\ last.ret = [tag |-> "Done", val |-> 1, err |-> "None"]
    /\ hcalls = <<HostCall("invoke_end", last.arg, 1), HostCall("invoke_cancel", 0, 0)>>
    /\ mcall[last.id].st = "gone"
    /\ mcall[last.id].cancels = 1

(* C15: a start the host rejects returns the host's error (CborDecode,      *)
(* BadDescriptor or TooManyDescriptors), makes its one host call and no     *)
(* other, creates no MethodCall and leaves the slot as it was, so that the  *)
(* Invoker can start again at once; and end and end_length never return one *)
(* of these three errors.                                                   *)
C15_StartErrors ==
    /\ []((last.op \in StartOps /\ last.ret.tag = "Err") =>
             /\ last.id \in tokens["Invoker"]
             /\ ENABLED StartComponentMethod(last.id, "valid"))
    /\ [][/\ (last'.op \in StartOps /\ hcalls'[1].rc < 0)
             => /\ last'.ret = Err(CASE hcalls'[1].rc = -2 -> "CborDecode"
                                     [] hcalls'[1].rc = -10 -> "BadDescriptor"
                                     [] hcalls'[1].rc = -11 -> "TooManyDescriptors")
                /\ Len(hcalls') = 1
                /\ mcall' = mcall
                /\ LiveCalls = {}
                /\ slot' = slot
                /\ slot = EmptySlot
          /\ last'.op \in {"end", "end_length", "expect_done"}
             => last'.ret.err \notin {"CborDecode", "BadDescriptor", "TooManyDescriptors"}]_vars

(* A start on an opaque value was rejected with BadDescriptor after an      *)
(* earlier call: no MethodCall is alive and the slot is empty.              *)
C15_Witness ==
    /\ last.op = "value_method"
    /\ last.ret = Err("BadDescriptor")
    /\ hcalls[1].rc = -10
    /\ mcall[last.id].st = "gone"
    /\ slot = EmptySlot

(* C16: expect_done returns the inner result of Done as it is and sends     *)
(* nothing; for BufferTooShort it returns Err(BufferTooShort) and for       *)
(* Pending Err(QueueEmpty), and in both the MethodCall carried is dropped:  *)
(* one invoke_cancel is sent, the slot is empty and the call is gone.       *)
C16_ExpectDone ==
    [][last'.op = "expect_done" =>
          /\ last.op = "end"
          /\ last.ret.tag = "Done" =>
                /\ last'.ret.tag = (IF last.ret.err = "None" THEN "Ok" ELSE "Err")
                /\ last'.ret.val = last.ret.val
                /\ last'.ret.err = last.ret.err
                /\ hcalls' = <<>>
                /\ UNCHANGED <<slot, mcall>>
          /\ last.ret.tag = "BufferTooShort" =>
                /\ last'.ret = Err("BufferTooShort")
                /\ hcalls' = <<HostCall("invoke_cancel", 0, 0)>>
                /\ slot.st = "ready"
                /\ slot' = EmptySlot
                /\ mcall'[last'.id].st = "gone"
          /\ last.ret.tag = "Pending" =>
                /\ last'.ret = Err("QueueEmpty")
                /\ hcalls' = <<HostCall("invoke_cancel", 0, 0)>>
                /\ slot.st = "pending"
                /\ slot' = EmptySlot
                /\ mcall'[last'.id].st = "gone"]_vars

(* expect_done turned a BufferTooShort into the error and cancelled the     *)
(* call, whose result is lost.                                              *)
C16_Witness ==
    /\ last.op = "expect_done"
    /\ last.kind = "BufferTooShort"
    /\ last.ret = Err("BufferTooShort")
    /\ hcalls = <<HostCall("invoke_cancel", 0, 0)>>
    /\ mcall[last.id].st = "gone"
    /\ mcall[last.id].short
    /\ slot = EmptySlot

(* C17: end_length on a call that finished with a result of n bytes returns *)
(* Done(Ok((n, call))): the MethodCall stays alive, no invoke_cancel is     *)
(* sent, the result stays with the host; every later end_length on the call *)
(* returns the same n, and an end with a buffer of n bytes then returns     *)
(* Done(Ok(n)).                                                             *)
C17_EndLengthKeepsResult ==
    [][/\ (last'.op = "end_length" /\ slot.st = "ready" /\ slot.res >= 0)
          => /\ last'.ret = [tag |-> "Done", val |-> slot.res, err |-> "None"]
             /\ mcall'[last'.id].st = "live"
             /\ NoCancel(hcalls')
             /\ slot' = slot
       /\ (last'.op = "end_length" /\ mcall[last'.id].reported >= 0)
          => last'.ret = [tag |-> "Done", val |-> mcall[last'.id].reported, err |-> "None"]
       /\ (last'.op = "end" /\ mcall[last'.id].reported >= 0
                            /\ last'.arg = mcall[last'.id].reported)
          => last'.ret = [tag |-> "Done", val |-> mcall[last'.id].reported, err |-> "None"]]_vars

(* end_length reported MaxLen a second time, the call being alive with its  *)
(* result still in the slot.                                                *)
C17_Witness ==
    /\ last.op = "end_length"
    /\ last.ret = [tag |-> "Done", val |-> MaxLen, err |-> "None"]
    /\ last = Op("end_length", last.id, last.ret)
    /\ mcall[last.id].st = "live"
    /\ mcall[last.id].reported = MaxLen
    /\ slot = [st |-> "ready", res |-> MaxLen]

----------------------------------------------------------------------------
(* Claims about the listings. *)

AdvanceOps == {"list_next", "next", "next_len"}

ListStartOps == {"list_start", "start_component", "start_value"}

(* The entries 1 .. n in order. *)
Upto(n) == [j \in 1 .. n |-> j]

(* C18: once Listing::next, MethodListing::next or MethodListing::next_len  *)
(* has returned None on a listing, every later advance on that listing      *)
(* returns None, and the host's cursor stays where it is.                   *)
C18_ExhaustedStaysExhausted ==
    [][(last'.op \in AdvanceOps /\ listing[last'.kind].nones > 0)
       => /\ last'.ret = Ret("None", 0)
          /\ hlist' = hlist]_vars

(* A component listing of three entries returned them all and then None     *)
(* twice or more.                                                           *)
C18_Witness ==
    /\ last.op = "list_next"
    /\ last.ret = Ret("None", 0)
    /\ listing["Lister"].nones = 2
    /\ listing["Lister"].got = Upto(MaxEntries)

(* C19: MethodListing::next with a buffer too short for the next name       *)
(* returns Err(BufferTooShort) and the cursor stays; with a buffer that     *)
(* holds it, next returns that entry, the one refused before if one was;    *)
(* ListEntry::type_name with a too short buffer returns Err(BufferTooShort) *)
(* and with a long enough one the type of the entry last listed; and the    *)
(* entries a listing has returned are the first entries of the host's       *)
(* sequence, each once and in order, all of them once it returned None.     *)
C19_BufferTooShortKeepsEntry ==
    [][/\ (/\ last'.op = "next"
           /\ hlist["MethodLister"].pos < Len(hlist["MethodLister"].seq)
           /\ last'.arg < hlist["MethodLister"].seq[hlist["MethodLister"].pos + 1])
          => /\ last'.ret = Err("BufferTooShort")
             /\ hlist' = hlist
             /\ listing'["MethodLister"].got = listing["MethodLister"].got
       /\ (/\ last'.op = "next"
           /\ hlist["MethodLister"].pos < Len(hlist["MethodLister"].seq)
           /\ last'.arg >= hlist["MethodLister"].seq[hlist["MethodLister"].pos + 1])
          => /\ last'.ret = Ret("Some", hlist["MethodLister"].pos + 1)
             /\ listing["MethodLister"].short \in {0, last'.ret.val}
             /\ listing'["MethodLister"].got = Append(listing["MethodLister"].got, last'.ret.val)
       /\ (last'.op = "type_name" /\ last'.arg < hlist["Lister"].seq[hlist["Lister"].pos])
          => /\ last'.ret = Err("BufferTooShort")
             /\ hlist' = hlist
       /\ (last'.op = "type_name" /\ last'.arg >= hlist["Lister"].seq[hlist["Lister"].pos])
          => /\ last'.ret = Ok(hlist["Lister"].seq[hlist["Lister"].pos])
             /\ listing["Lister"].short \in {0, hlist["Lister"].pos}
             /\ listing["Lister"].got[Len(listing["Lister"].got)] = hlist["Lister"].pos
       /\ \A k \in ListKinds :
             listing'[k].alive > 0
             => /\ listing'[k].got = Upto(Len(listing'[k].got))
                /\ Len(listing'[k].got) = hlist'[k].pos
                /\ listing'[k].nones > 0 => Len(listing'[k].got) = Len(hlist'[k].seq)]_vars

(* A method listing of three entries returned them all in order, one of     *)
(* them after a buffer too short for it had been refused, and then None.    *)
C19_Witness ==
    /\ last.op = "next"
    /\ last.ret = Ret("None", 0)
    /\ listing["MethodLister"].retried
    /\ listing["MethodLister"].got = Upto(MaxEntries)
    /\ Len(hlist["MethodLister"].seq) = MaxEntries

(* C20: at most one Listing (MethodListing) made from a token is alive, a   *)
(* start is issued only when none is alive, and an advance is applied to    *)
(* the one alive, which is the latest started: the host's cursor stands     *)
(* after the entries that listing has returned.                             *)
C20_ListingsDoNotInterleave ==
    [][/\ \A k \in ListKinds : listing'[k].alive <= 1
       /\ last'.op \in ListStartOps => listing[last'.kind].alive = 0
       /\ last'.op \in AdvanceOps =>
             /\ listing[last'.kind].alive = 1
             /\ Len(listing[last'.kind].got) = hlist[last'.kind].pos]_vars

(* A second method listing was started on the token after the first was     *)
(* dropped half way, and returned its first entry.                          *)
C20_Witness ==
    /\ last.op = "next"
    /\ last.ret = Ret("Some", 1)
    /\ listing["MethodLister"].nth = 2
    /\ listing["MethodLister"].alive = 1
    /\ listing["MethodLister"].got = <<1>>

----------------------------------------------------------------------------
(* Claims about the conversions. *)

(* The error each host code stands for. *)
ErrorOf(code) ==
    CASE code = -2 -> "CborDecode"
      [] code = -4 -> "BufferTooShort"
      [] code = -5 -> "NoSuchComponent"
      [] code = -6 -> "NoSuchMethod"
      [] code = -7 -> "BadParameters"
      [] code = -8 -> "QueueFull"
      [] code = -9 -> "QueueEmpty"
      [] code = -10 -> "BadDescriptor"
      [] code = -11 -> "TooManyDescriptors"
      [] code = -12 -> "Other"
      [] OTHER -> "Unknown"

Fatal == {-1, -3}

(* Bit k of v is set: v is hi * 2^(k+1) + 2^k + lo with lo below 2^k. *)
BitSet(v, k) == \E hi \in 0 .. v : \E lo \in 0 .. 2 ^ k - 1 : v = hi * 2 ^ (k + 1) + 2 ^ k + lo

(* C21: from_isize returns the error of the table for each of the codes -2, *)
(* -4, -5, -6, -7, -8, -9, -10, -11 and -12, and Unknown for every code     *)
(* below -12.                                                               *)
C21_ErrorCodes ==
    last.op = "from_isize" =>
       /\ last.arg \in (-12 .. -2) \ Fatal => (last.ret = Err(ErrorOf(last.arg)) /\ last.ret.err # "Unknown")
       /\ last.arg < -12 => last.ret = Err("Unknown")

(* from_isize was given a code below -12 and returned Unknown. *)
C21_Witness ==
    /\ last.op = "from_isize"
    /\ last.arg = -13
    /\ last.ret = Err("Unknown")

(* C22: whatever way a wrapper treats the host's return value, on -1 and on *)
(* -3 the program aborts and no Error value is returned.                    *)
C22_EveryWrapperAborts ==
    (last.op = "receive" /\ last.arg \in Fatal) => last.ret = Panic

(* C23: from_isize returns Ok(v) for every v that is not negative, and      *)
(* from_i32 returns on every i32 what from_isize returns on the same        *)
(* number.                                                                  *)
C23_CountsPassThrough ==
    /\ (last.op \in {"from_isize", "from_i32"} /\ last.arg >= 0) =>
          last.ret = [tag |-> "Ok", val |-> last.arg, err |-> "None"]
    /\ last.op = "from_i32" => last.ret = from_isize(last.arg)

(* from_i32 was given the largest i32 and returned it. *)
C23_Witness ==
    /\ last.op = "from_i32"
    /\ last.arg = 2 ^ (Bits - 1) - 1
    /\ last.ret.tag = "Ok"
    /\ last.ret.val = last.arg

(* C24: MethodAttributes::from sets direct iff bit 0 of the mask is set,    *)
(* getter iff bit 1 and setter iff bit 2, whatever the higher bits; 0b101   *)
(* gives direct and setter, 0b010 gives getter.                             *)
C24_AttributeBits ==
    last.op = "attributes_from" =>
       /\ last.ret.direct <=> BitSet(last.arg, 0)
       /\ last.ret.getter <=> BitSet(last.arg, 1)
       /\ last.ret.setter <=> BitSet(last.arg, 2)
       /\ last.arg = 5 => last.ret = [direct |-> TRUE, getter |-> FALSE, setter |-> TRUE]
       /\ last.arg = 2 => last.ret = [direct |-> FALSE, getter |-> TRUE, setter |-> FALSE]

(* The mask 0b01101, with a higher bit set, was decoded as 0b101 is. *)
C24_Witness ==
    /\ last.op = "attributes_from"
    /\ last.arg = 13
    /\ last.ret = [direct |-> TRUE, getter |-> FALSE, setter |-> TRUE]

(* C28: on the value of invoke_end, end returns BufferTooShort(call) for    *)
(* -4, Pending(call) for -9, Done(Err(e)) for every other error and         *)
(* Done(Ok(n)) for a count n; end_length returns Pending(call) for -9,      *)
(* Done(Ok((n, call))) for a count and Done(Err(e)) for every other error,  *)
(* -4 among them; the MethodCall is in the variants that carry it and is    *)
(* dropped in the others.                                                   *)
C28_EndClassification ==
    /\ (last.op = "classify_end" /\ last.arg \notin Fatal) =>
          /\ last.arg = -4 => (last.ret = Ret("BufferTooShort", 0) /\ last.kind = "kept")
          /\ last.arg = -9 => (last.ret = Ret("Pending", 0) /\ last.kind = "kept")
          /\ (last.arg < 0 /\ last.arg \notin {-4, -9}) =>
                (last.ret = [tag |-> "Done", val |-> 0, err |-> ErrorOf(last.arg)] /\ last.kind = "dropped")
          /\ last.arg >= 0 =>
                (last.ret = [tag |-> "Done", val |-> last.arg, err |-> "None"] /\ last.kind = "dropped")
    /\ (last.op = "classify_end_length" /\ last.arg \notin Fatal) =>
          /\ last.arg = -9 => (last.ret = Ret("Pending", 0) /\ last.kind = "kept")
          /\ (last.arg < 0 /\ last.arg # -9) =>
                (last.ret = [tag |-> "Done", val |-> 0, err |-> ErrorOf(last.arg)] /\ last.kind = "dropped")
          /\ last.arg >= 0 =>
                (last.ret = [tag |-> "Done", val |-> last.arg, err |-> "None"] /\ last.kind = "kept")

(* end was given BufferTooShort by the host and handed the MethodCall back. *)
C28_Witness ==
    /\ last.op = "classify_end"
    /\ last.arg = -4
    /\ last.ret.tag = "BufferTooShort"
    /\ last.kind = "kept"

(* C29 as stated: Listing::next returns an entry iff list_next returned 1;  *)
(* on 0 and on a negative code it returns none.                             *)
C29_EntryIffHostWrote ==
    (last.op = "receive" /\ last.kind = "zero_test") => (last.ret.tag = "Some" <=> last.arg = 1)

(* C25: the bytes that encode writes for an Owned or a Borrowed of raw      *)
(* value r carry the Identifier tag and decode to a Decoded of raw value r; *)
(* bytes with another tag fail to decode and make no Decoded.               *)
C25_EncodeDecodeRoundTrip ==
    [][/\ last'.op = "decode_encoded" =>
             /\ last.op \in {"encode", "encode_borrowed"}
             /\ last.ret.val.tag = 39
             /\ last'.ret.tag = "Ok"
             /\ decoded[last'.id].st = "none" /\ decoded'[last'.id].st = "live"
             /\ last.op = "encode" => decoded'[last'.id].nz - 1 = RawOf(last.id)
             /\ last.op = "encode_borrowed" => decoded'[last'.id].nz - 1 = borrowed[last.id].nz - 1
       /\ (last'.op = "decode" /\ last'.arg # 39) =>
             (last'.ret = Err("Decode") /\ decoded' = decoded)]_vars

(* The encoding of a Borrowed was decoded: the Decoded, the Borrowed and    *)
(* the Owned it was borrowed from name the same open entry.                 *)
C25_Witness ==
    /\ last.op = "decode_encoded"
    /\ last.ret.tag = "Ok"
    /\ decoded[last.id].st = "live"
    /\ \E b \in BorrowedIds :
          /\ borrowed[b].st = "live"
          /\ borrowed[b].nz = decoded[last.id].nz
          /\ table[borrowed[b].nz - 1]

(* C27: a MethodCall has no invoke_cancel sent while it exists and exactly  *)
(* one in the step that ends it, whichever way it ends: dropped, consumed   *)
(* by end returning Done, by end_length returning Done with an error, or by *)
(* expect_done on a result that is not Done. The cancel comes after every   *)
(* invoke_end of that call, no step sends a cancel without ending a call,   *)
(* and a start is issued only when the call before it was cancelled.        *)
C27_ExactlyOneCancel ==
    /\ [](\A i \in TokIds :
             /\ mcall[i].st = "live" => mcall[i].cancels = 0
             /\ mcall[i].st = "gone" => mcall[i].cancels = 1)
    /\ [][/\ last'.op = "drop_call" =>
                (hcalls' = <<HostCall("invoke_cancel", 0, 0)>> /\ mcall'[last'.id].st = "gone")
          /\ (last'.op = "end" /\ last'.ret.tag = "Done") =>
                (CancelCount(hcalls') = 1 /\ mcall'[last'.id].st = "gone")
          /\ (last'.op = "end_length" /\ last'.ret.tag = "Done" /\ last'.ret.err # "None") =>
                (CancelCount(hcalls') = 1 /\ mcall'[last'.id].st = "gone")
          /\ (last'.op = "expect_done" /\ last'.kind # "Done") =>
                (hcalls' = <<HostCall("invoke_cancel", 0, 0)>> /\ mcall'[last'.id].st = "gone")
          /\ CancelCount(hcalls') > 0 =>
                \E i \in TokIds : mcall[i].st = "live" /\ mcall'[i].st = "gone"
          /\ \A n \in DOMAIN hcalls' :
                hcalls'[n].call = "invoke_end" =>
                   /\ LiveCalls # {}
                   /\ \A m \in DOMAIN hcalls' : hcalls'[m].call = "invoke_cancel" => n < m
          /\ \A n \in DOMAIN hcalls' :
                hcalls'[n].call \in StartOps =>
                   /\ NoCancel(hcalls')
                   /\ \A i \in TokIds : mcall[i].st # "live"
                   /\ mcall[last'.id].nth > 0 => mcall[last'.id].cancels = 1]_vars

(* The second MethodCall of an Invoker was dropped after end had answered   *)
(* BufferTooShort: one invoke_cancel was sent for it.                       *)
C27_Witness ==
    /\ last.op = "drop_call"
    /\ mcall[last.id].st = "gone"
    /\ mcall[last.id].short
    /\ mcall[last.id].nth = 2
    /\ mcall[last.id].cancels = 1
    /\ hcalls = <<HostCall("invoke_cancel", 0, 0)>>

----------------------------------------------------------------------------
(* Claims about the calls on the host. *)

(* The host calls of that name among the host calls of a step. *)
CallCount(calls, name) == Cardinality({n \in DOMAIN calls : calls[n].call = name})

(* C26: each call of end, end_length, Listing::next, MethodListing::next,   *)
(* dup or a start issues exactly one host call of its kind and returns what *)
(* the host answered to that one call; the host is fetched from, polled or  *)
(* advanced only in a step in which the caller calls the wrapper.           *)
C26_NoHiddenRetry ==
    [][/\ last'.op \in {"end", "end_length"} =>
             /\ CallCount(hcalls', "invoke_end") = 1
             /\ hcalls'[1].call = "invoke_end"
             /\ LET rc == hcalls'[1].rc
                IN  /\ rc = -9 => last'.ret = Ret("Pending", 0)
                    /\ (rc = -4 /\ last'.op = "end") => last'.ret = Ret("BufferTooShort", 0)
                    /\ rc >= 0 => last'.ret = [tag |-> "Done", val |-> rc, err |-> "None"]
                    /\ (rc < 0 /\ rc # -9 /\ ~(rc = -4 /\ last'.op = "end")) =>
                          last'.ret = [tag |-> "Done", val |-> 0, err |-> ErrorOf(rc)]
       /\ last'.op = "list_next" =>
             /\ Len(hcalls') = 1
             /\ hcalls'[1].call = "list_next"
             /\ last'.ret.tag = "Some" <=> hcalls'[1].rc = 1
             /\ last'.ret.tag = "None" <=> hcalls'[1].rc = 0
       /\ last'.op = "next" =>
             /\ Len(hcalls') = 1
             /\ hcalls'[1].call = "methods_next"
             /\ hcalls'[1].rc < 0 => last'.ret = Err(ErrorOf(hcalls'[1].rc))
             /\ hcalls'[1].rc = 0 => last'.ret.tag = "None"
             /\ hcalls'[1].rc > 0 => last'.ret.tag = "Some"
       /\ last'.op = "dup" =>
             /\ Len(hcalls') = 1
             /\ hcalls'[1].call = "dup"
             /\ hcalls'[1].rc < 0 => last'.ret = Err(ErrorOf(hcalls'[1].rc))
             /\ hcalls'[1].rc >= 0 =>
                   (last'.ret.tag = "Ok" /\ owned'[last'.ret.val].nz - 1 = hcalls'[1].rc)
       /\ last'.op \in StartOps =>
             /\ Len(hcalls') = 1
             /\ hcalls'[1].call = last'.op
             /\ hcalls'[1].rc < 0 => last'.ret = Err(ErrorOf(hcalls'[1].rc))
             /\ hcalls'[1].rc = 0 => last'.ret.tag = "Incomplete"
             /\ hcalls'[1].rc > 0 => last'.ret.tag = "Complete"
       /\ \A n \in DOMAIN hcalls' :
             /\ hcalls'[n].call = "invoke_end" => last'.op \in {"end", "end_length"}
             /\ hcalls'[n].call = "list_next" => last'.op = "list_next"
             /\ hcalls'[n].call = "methods_next" => last'.op = "next"
             /\ hcalls'[n].call = "dup" => last'.op = "dup"
             /\ hcalls'[n].call \in StartOps => last'.op = hcalls'[n].call]_vars

(* end was called again in a later timeslice on a call that is still        *)
(* pending: the host was polled once and its QueueEmpty came back as        *)
(* Pending.                                                                 *)
C26_Witness ==
    /\ last.op = "end"
    /\ last.ret.tag = "Pending"
    /\ hcalls = <<HostCall("invoke_end", last.arg, -9)>>
    /\ mcall[last.id].sliced
    /\ mcall[last.id].hint = "Incomplete"

(* The host calls that name an opaque value as their target. *)
TargetCalls == ValueOps \cup {"methods_start_value", "documentation_value", "dup"}

(* C30: the descriptor that a host call names as its target is an entry     *)
(* that is open when the call is made, and the calls whose only descriptor  *)
(* is the target are never answered BadDescriptor; start_value, which       *)
(* ignores what the host returns, begins a listing each time.               *)
C30_TargetsOpen ==
    [][/\ \A n \in DOMAIN hcalls' :
             hcalls'[n].call \in TargetCalls =>
                /\ hcalls'[n].arg \in Desc
                /\ table[hcalls'[n].arg]
                /\ hcalls'[n].call \notin ValueOps => hcalls'[n].rc # -10
       /\ last'.op = "start_value" =>
             /\ Len(hcalls') = 1
             /\ hcalls'[1].call = "methods_start_value"
             /\ hcalls'[1].rc = 0
             /\ hlist'["MethodLister"].pos = 0
             /\ listing'["MethodLister"].alive > 0]_vars

(* start_value was given the duplicate of an Owned that has been dropped    *)
(* since: entry 0 is closed, the target, entry 1, is open.                  *)
C30_Witness ==
    /\ last.op = "start_value"
    /\ hcalls = <<HostCall("methods_start_value", 1, 0)>>
    /\ ~table[0]
    /\ table[1]

----------------------------------------------------------------------------
(* Claims about the width of a descriptor. *)

(* C31 as stated: for every u32 r, Owned::new(r) stores r + 1, which is not *)
(* 0, without overflow, and as_raw of the Owned, as_raw of a Borrowed of it *)
(* and into_inner return r.                                                 *)
C31_EveryRawRoundTrips ==
    last.op = "owned_new" =>
       /\ last.kind = "Ok"
       /\ last.ret.nz = last.arg + 1
       /\ last.ret.nz # 0
       /\ last.ret.raw = last.arg /\ last.ret.braw = last.arg /\ last.ret.inner = last.arg

(* C31 as amended: the same for every r below the largest u32; for the      *)
(* largest u32 r + 1 overflows and Owned::new does not return a handle of   *)
(* non-zero value r + 1.                                                    *)
C31_RawBelowMaxRoundTrips ==
    last.op = "owned_new" =>
       /\ last.arg < 2 ^ Bits - 1 =>
             /\ last.kind = "Ok"
             /\ last.ret.nz = last.arg + 1
             /\ last.ret.nz \in 1 .. 2 ^ Bits - 1
             /\ last.ret.raw = last.arg /\ last.ret.braw = last.arg /\ last.ret.inner = last.arg
       /\ last.arg = 2 ^ Bits - 1 => last.kind \in {"Panic", "Undefined"}

(* Owned::new was given the largest raw value that fits and as_raw gave it  *)
(* back.                                                                    *)
C31_Witness ==
    /\ last.op = "owned_new"
    /\ last.arg = 2 ^ Bits - 2
    /\ last.kind = "Ok"
    /\ last.ret.nz = 2 ^ Bits - 1
    /\ last.ret.raw = last.arg

(* C32: decoding the Identifier tag followed by any u32 v returns a Decoded *)
(* of raw value v or a decode error, and does not panic.                    *)
C32_DecodeNeverAborts ==
    (last.op = "decode_u32" /\ last.kind = "Identifier") =>
       \/ last.ret.tag = "Err"
       \/ last.ret.tag = "Ok" /\ last.ret.val - 1 = last.arg

----------------------------------------------------------------------------
(* Claims about the result of a call. *)

(* C33: once end_length has returned Done with a length, or end has         *)
(* returned BufferTooShort, for a MethodCall, end and end_length on that    *)
(* MethodCall do not return Pending any more, and a length they return is   *)
(* the length already reported.                                             *)
C33_NeverBackToPending ==
    [][(/\ last'.op \in {"end", "end_length"}
        /\ mcall[last'.id].reported >= 0 \/ mcall[last'.id].short)
       => /\ last'.ret.tag \in {"Done", "BufferTooShort"}
          /\ slot.st = "ready"
          /\ last'.ret.tag = "Done" =>
                /\ last'.ret.err = "None"
                /\ mcall[last'.id].reported >= 0 => last'.ret.val = mcall[last'.id].reported]_vars

(* end_length reported MaxLen bytes, end with a shorter buffer answered     *)
(* BufferTooShort, and end with a buffer that holds them fetched MaxLen     *)
(* bytes.                                                                   *)
C33_Witness ==
    /\ last.op = "end"
    /\ last.ret = [tag |-> "Done", val |-> MaxLen, err |-> "None"]
    /\ mcall[last.id].reported = MaxLen
    /\ mcall[last.id].short

(* C34: the host holds no result between calls: the step that ends a        *)
(* MethodCall empties the host's slot, a result waiting in it included; so  *)
(* on a later MethodCall end and end_length return Pending until the host   *)
(* has a result for that call, and what they return as Done is what the     *)
(* slot holds for it.                                                       *)
C34_ResultsDoNotLeak ==
    /\ [](LiveCalls = {} => slot = EmptySlot)
    /\ [][/\ \A i \in TokIds :
                (mcall[i].st = "live" /\ mcall'[i].st = "gone") => slot' = EmptySlot
          /\ (last'.op \in StartOps /\ mcall'[last'.id].st = "live") =>
                /\ slot = EmptySlot
                /\ slot'.st = "pending" <=> hcalls'[1].rc = 0
                /\ slot'.st = "ready" <=> hcalls'[1].rc > 0
          /\ (/\ last'.op \in {"end", "end_length"}
              /\ mcall[last'.id].hint = "Incomplete"
              /\ ~mcall[last'.id].sliced) => last'.ret.tag = "Pending"
          /\ (last'.op \in {"end", "end_length"} /\ last'.ret.tag = "Done") =>
                /\ slot.st = "ready"
                /\ slot.res >= 0 => (last'.ret.val = slot.res /\ last'.ret.err = "None")
                /\ slot.res < 0 => last'.ret.err = ErrorOf(slot.res)]_vars

(* The second MethodCall of an Invoker, started Incomplete after the first  *)
(* one was cancelled, was polled at once: Pending.                          *)
C34_Witness ==
    /\ last.op = "end"
    /\ last.ret.tag = "Pending"
    /\ mcall[last.id].st = "live"
    /\ mcall[last.id].nth = 2
    /\ mcall[last.id].hint = "Incomplete"
    /\ ~mcall[last.id].sliced
    /\ slot.st = "pending"

(* C35: type_name and type_name_len are answered for the component of the  *)
(* ListEntry they are called on: while a ListEntry exists the host's cursor *)
(* stands on the component that the entry was made for, no step advances    *)
(* the Listing or starts a listing, and the length returned, or compared    *)
(* with the buffer, is that of this component's type.                       *)
C35_TypeOfTheEntry ==
    /\ [](listing["Lister"].entry =>
             /\ listing["Lister"].alive > 0
             /\ listing["Lister"].got # <<>>
             /\ hlist["Lister"].pos = listing["Lister"].got[Len(listing["Lister"].got)]
             /\ hlist["Lister"].pos \in 1 .. Len(hlist["Lister"].seq))
    /\ [][/\ listing["Lister"].entry => last'.op \notin {"list_next", "list_start"}
          /\ (listing["Lister"].entry /\ listing'["Lister"].entry) =>
                hlist'["Lister"] = hlist["Lister"]
          /\ last'.op \in {"type_name", "type_name_len"} =>
                /\ listing["Lister"].entry
                /\ LET own == hlist["Lister"].seq[listing["Lister"].got[Len(listing["Lister"].got)]]
                   IN  /\ last'.op = "type_name_len" => last'.ret = Ok(own)
                       /\ (last'.op = "type_name" /\ last'.arg >= own) => last'.ret = Ok(own)
                       /\ (last'.op = "type_name" /\ last'.arg < own) =>
                             last'.ret = Err("BufferTooShort")]_vars

(* type_name was called on the second entry of a listing and returned the   *)
(* type of the second component.                                            *)
C35_Witness ==
    /\ last.op = "type_name"
    /\ last.ret.tag = "Ok"
    /\ listing["Lister"].entry
    /\ Len(listing["Lister"].got) = 2
    /\ hlist["Lister"].pos = 2
    /\ last.ret.val = hlist["Lister"].seq[2]
    /\ hlist["Lister"].seq[1] # hlist["Lister"].seq[2]

(* C36: where the host finishes every call it started and the caller keeps  *)
(* the MethodCall and polls it with end and a buffer that holds the result, *)
(* every MethodCall is led to an end that returns Done; and end can be      *)
(* called on a MethodCall at any time, so that a poll is one step that      *)
(* waits for nothing.                                                       *)
C36_PollReachesDone ==
    /\ \A i \in TokIds :
          (mcall[i].st = "live") ~>
             (last.op = "end" /\ last.id = i /\ last.ret.tag = "Done" /\ mcall[i].st = "gone")
    /\ [](\A i \in TokIds : mcall[i].st = "live" => ENABLED End(i, MaxLen))

(* A call that started Incomplete was polled, found Pending, and polled     *)
(* again in a later timeslice: Done.                                        *)
C36_Witness ==
    /\ last.op = "end"
    /\ last.ret.tag = "Done"
    /\ mcall[last.id].st = "gone"
    /\ mcall[last.id].hint = "Incomplete"
    /\ mcall[last.id].polled
    /\ mcall[last.id].sliced

====
